---- MODULE Spec2Model ----
(***************************************************************************)
(* Model of src/src/utils/convertToImage.ts: export preparation, corner    *)
(* radius clamping, and the asynchronous raster / vector export pipelines. *)
(*                                                                         *)
(* Numbers.  The source computes on JavaScript numbers (IEEE-754 binary,   *)
(* round-to-nearest-even, 53 significand bits).  TLC has 32-bit integers,  *)
(* so a number is modelled as a dyadic rational <<n, d>> (d a power of     *)
(* two, lowest terms) and every arithmetic operation is rounded to         *)
(* MantBits significand bits, to nearest, ties to even: the same           *)
(* arithmetic at a reduced precision.  Infinity is <<1, 0>>.               *)
(***************************************************************************)
EXTENDS Integers, Sequences, FiniteSets, TLC

MantBits == 8

RECURSIVE Pow2(_)
Pow2(k) == IF k = 0 THEN 1 ELSE 2 * Pow2(k - 1)

Half == Pow2(MantBits - 1)
Full == Pow2(MantBits)

Zero == <<0, 1>>
One == <<1, 1>>
Infinity == <<1, 0>>

Num(v) == <<v, 1>>

IsFinite(a) == a[2] # 0

\* exact comparisons of two numbers (no rounding is involved in a comparison)
Lt(a, b) == a[1] * b[2] < b[1] * a[2]
Le(a, b) == a[1] * b[2] <= b[1] * a[2]
Gt(a, b) == Lt(b, a)

RECURSIVE Dy(_, _)
\* the dyadic m * 2^e in lowest terms
Dy(m, e) ==
  IF m = 0 THEN Zero
  ELSE IF e >= 0 THEN <<m * Pow2(e), 1>>
  ELSE IF m % 2 = 0 THEN Dy(m \div 2, e + 1)
  ELSE <<m, Pow2(0 - e)>>

\* n / d rounded to an integer, ties to even
RoundHalfEven(n, d) ==
  LET q == n \div d
      r == n % d
  IN  IF 2 * r < d THEN q
      ELSE IF 2 * r > d THEN q + 1
      ELSE q + (q % 2)

RECURSIVE Norm(_, _, _)
\* (n / d) * 2^e, n > 0, rounded to MantBits significand bits: the fraction is
\* brought into [2^(MantBits-1), 2^MantBits) by powers of two, then rounded
Norm(n, d, e) ==
  IF n \div d < Half
    THEN IF d % 2 = 0 THEN Norm(n, d \div 2, e - 1) ELSE Norm(2 * n, d, e - 1)
  ELSE IF n \div d >= Full
    THEN IF n % 2 = 0 THEN Norm(n \div 2, d, e + 1) ELSE Norm(n, 2 * d, e + 1)
  ELSE Dy(RoundHalfEven(n, d), e)

\* the floating-point number nearest to the non-negative rational n / d
Fl(n, d) == IF n = 0 THEN Zero ELSE Norm(n, d, 0)

\* JavaScript +, *, / on non-negative numbers
FAdd(a, b) ==
  LET D == IF a[2] > b[2] THEN a[2] ELSE b[2]
  IN  Fl(a[1] * (D \div a[2]) + b[1] * (D \div b[2]), D)
FMul(a, b) == Fl(a[1] * b[1], a[2] * b[2])
FDiv(a, b) == Fl(a[1] * b[2], a[2] * b[1])

\* Math.max(0, x || 0)
Max0(a) == IF a[1] < 0 THEN Zero ELSE a

\* Math.min over a non-empty sequence of numbers
RECURSIVE MathMin(_)
MathMin(s) ==
  IF Len(s) = 1 THEN s[1]
  ELSE LET m == MathMin(Tail(s)) IN IF Lt(m, s[1]) THEN m ELSE s[1]

\* CornerRadii: <<topLeft, topRight, bottomRight, bottomLeft>> as a record
Radii(tl, tr, br, bl) ==
  [topLeft |-> tl, topRight |-> tr, bottomRight |-> br, bottomLeft |-> bl]

\* faulty variant: each corner is clamped against its own edge, not by a common factor
clampRadiiCssPerCorner(r, width, height) ==
  LET lim(x) == MathMin(<<x, width, height>>)
  IN  Radii(lim(Max0(r.topLeft)), lim(Max0(r.topRight)),
            lim(Max0(r.bottomRight)), lim(Max0(r.bottomLeft)))

\* faulty variant: the shrink factor of an edge is inverted (sum / dimension)
clampRadiiCssInverted(r, width, height) ==
  LET tl == Max0(r.topLeft)
      tr == Max0(r.topRight)
      br == Max0(r.bottomRight)
      bl == Max0(r.bottomLeft)
      inv(sum, dim) == IF Gt(sum, Zero) THEN FDiv(sum, dim) ELSE Infinity
      f == MathMin(<<One, inv(FAdd(tl, tr), width), inv(FAdd(bl, br), width),
                     inv(FAdd(tl, bl), height), inv(FAdd(tr, br), height)>>)
  IN  Radii(FMul(tl, f), FMul(tr, f), FMul(br, f), FMul(bl, f))

clampRadiiCss(r, width, height) ==
  LET tl == Max0(r.topLeft)
      tr == Max0(r.topRight)
      br == Max0(r.bottomRight)
      bl == Max0(r.bottomLeft)
      topSum == FAdd(tl, tr)
      bottomSum == FAdd(bl, br)
      leftSum == FAdd(tl, bl)
      rightSum == FAdd(tr, br)
      sTop == IF Gt(topSum, Zero) THEN FDiv(width, topSum) ELSE Infinity
      sBottom == IF Gt(bottomSum, Zero) THEN FDiv(width, bottomSum) ELSE Infinity
      sLeft == IF Gt(leftSum, Zero) THEN FDiv(height, leftSum) ELSE Infinity
      sRight == IF Gt(rightSum, Zero) THEN FDiv(height, rightSum) ELSE Infinity
      f == MathMin(<<One, sTop, sBottom, sLeft, sRight>>)
  IN  Radii(FMul(tl, f), FMul(tr, f), FMul(br, f), FMul(bl, f))

(***************************************************************************)
(* Export preparation                                                      *)
(***************************************************************************)

\* null / undefined
Null == <<-1, 0>>

\* a ?? b
Coalesce(a, b) == IF a = Null THEN b ELSE a

\* a truthy number: neither null, nor 0
Truthy(a) == a # Null /\ a[1] # 0

\* a || b on numbers
OrElse(a, b) == IF Truthy(a) THEN a ELSE b

\* a record read as JavaScript reads a property: undefined when absent
Get(obj, key) == IF key \in DOMAIN obj THEN obj[key] ELSE Null

\* { ...a, ...b }: the later spread wins
Spread(a, b) == b @@ a

DEFAULT_RADIUS == 48

defaultOptions == [width |-> <<400, 1>>, height |-> <<400, 1>>]

\* Math.round(x) of a non-negative number: the nearest integer, ties up
MathRound(a) == (2 * a[1] + a[2]) \div (2 * a[2])

areRadiiEqual(radii) ==
  /\ radii.topLeft = radii.topRight
  /\ radii.topLeft = radii.bottomRight
  /\ radii.topLeft = radii.bottomLeft

\* A CSS text is <<word, numbers>>: the numbers printed in it, each followed or
\* preceded by the word.  Text("hidden") has no number; the empty text, which
\* also stands for an absent argument, is EmptyText.
Text(word) == <<word, <<>> >>
EmptyText == Text("")

\* `${rounded}px`
formatRadiusValue(value) ==
  LET clamped == IF IsFinite(value) THEN Max0(value) ELSE Zero
      rounded == FDiv(Num(MathRound(FMul(clamped, Num(1000)))), Num(1000))
  IN  <<"px", <<rounded>> >>

\* the texts joined with ' '
JoinPx(texts) == <<"px", <<texts[1][2][1], texts[2][2][1], texts[3][2][1], texts[4][2][1]>> >>

buildClipPathValue(radii) ==
  LET formatted == <<formatRadiusValue(radii.topLeft), formatRadiusValue(radii.topRight),
                     formatRadiusValue(radii.bottomRight), formatRadiusValue(radii.bottomLeft)>>
  IN  IF areRadiiEqual(radii) THEN <<"inset(0 round px)", formatted[1][2]>>
      ELSE <<"inset(0 round px)", JoinPx(formatted)[2]>>

\* parseFloat reads the leading number of the text; none gives null
parseRadiusValue(value) ==
  IF Len(value[2]) = 0 THEN Null ELSE value[2][1]

getCornerRadii(element, fallbackRadius) ==
  LET computedStyle == element.computedStyle
      fallbackValue == Coalesce(parseRadiusValue(fallbackRadius), Num(DEFAULT_RADIUS))
  IN  Radii(Coalesce(parseRadiusValue(computedStyle.borderTopLeftRadius), fallbackValue),
            Coalesce(parseRadiusValue(computedStyle.borderTopRightRadius), fallbackValue),
            Coalesce(parseRadiusValue(computedStyle.borderBottomRightRadius), fallbackValue),
            Coalesce(parseRadiusValue(computedStyle.borderBottomLeftRadius), fallbackValue))

\* typeof value === 'number'
parseDimension(value) ==
  IF value = Null THEN Null
  ELSE IF IsFinite(value) /\ value[1] > 0 THEN value ELSE Null

\* faulty variant: the larger of the two axis scales (cover instead of fit)
getResizeScaleToFitMax(child, width, height) ==
  IF child.offsetWidth[1] = 0 \/ child.offsetHeight[1] = 0 THEN One
  ELSE LET scaleX == FDiv(width, child.offsetWidth)
           scaleY == FDiv(height, child.offsetHeight)
       IN  IF Lt(scaleX, scaleY) THEN scaleY ELSE scaleX

getResizeScaleToFit(child, width, height) ==
  LET childWidth == child.offsetWidth
      childHeight == child.offsetHeight
  IN  IF childWidth[1] = 0 \/ childHeight[1] = 0 THEN One
      ELSE LET scaleX == FDiv(width, childWidth)
               scaleY == FDiv(height, childHeight)
               maxScale == MathMin(<<scaleX, scaleY>>)
           IN  IF IsFinite(maxScale) /\ Gt(maxScale, Zero) THEN maxScale ELSE One

\* the per-corner radii, the shorthand and the clip-path assigned to the style
RadiusStyle(clamped) ==
  LET radiiValues == <<formatRadiusValue(clamped.topLeft), formatRadiusValue(clamped.topRight),
                       formatRadiusValue(clamped.bottomRight), formatRadiusValue(clamped.bottomLeft)>>
      allEqual == \A i \in 1..4 : radiiValues[i] = radiiValues[1]
      clipPathValue == buildClipPathValue(clamped)
  IN  [borderTopLeftRadius |-> radiiValues[1],
       borderTopRightRadius |-> radiiValues[2],
       borderBottomRightRadius |-> radiiValues[3],
       borderBottomLeftRadius |-> radiiValues[4],
       borderRadius |-> IF allEqual THEN radiiValues[1] ELSE JoinPx(radiiValues),
       clipPath |-> clipPathValue,
       webkitClipPath |-> clipPathValue]

\* options.style ? options.style : {}
CallerStyle(options) ==
  IF "style" \in DOMAIN options THEN options.style ELSE <<>>

\* faulty variant: the caller's style is spread last, over the computed properties
ScaledStyleCallerLast(options, safeScale, scaledClamped) ==
  Spread(Spread([transform |-> <<"scale", <<safeScale>> >>,
                 transformOrigin |-> Text("left top"),
                 overflow |-> Text("hidden")],
                RadiusStyle(scaledClamped)),
         CallerStyle(options))

\* the style of the scaled path
ScaledStyle(options, safeScale, scaledClamped) ==
  Spread(Spread(CallerStyle(options),
                [transform |-> <<"scale", <<safeScale>> >>,
                 transformOrigin |-> Text("left top"),
                 overflow |-> Text("hidden")]),
         RadiusStyle(scaledClamped))

\* the style of the path without scaling
PlainStyle(options, radiiClamped) ==
  Spread(Spread(CallerStyle(options), [overflow |-> Text("hidden")]),
         RadiusStyle(radiiClamped))

getExportPreparation(element, options, borderRadius) ==
  LET requestedWidth == parseDimension(Get(options, "width"))
      requestedHeight == parseDimension(Get(options, "height"))
      fallbackWidth == OrElse(OrElse(element.offsetWidth, defaultOptions.width), One)
      fallbackHeight == OrElse(OrElse(element.offsetHeight, defaultOptions.height), One)
      targetWidth == Coalesce(requestedWidth, fallbackWidth)
      targetHeight == Coalesce(requestedHeight, fallbackHeight)
      radii == getCornerRadii(element, borderRadius)
      bounds == element.rect
      sourceWidth == OrElse(bounds.width, targetWidth)
      sourceHeight == OrElse(bounds.height, targetHeight)
      sourceX == OrElse(bounds.x, Zero)
      sourceY == OrElse(bounds.y, Zero)
  IN  IF Truthy(requestedWidth) /\ Truthy(requestedHeight)
      THEN
        LET scale == getResizeScaleToFit(element, requestedWidth, requestedHeight)
            safeScale == IF IsFinite(scale) /\ Gt(scale, Zero) THEN scale ELSE One
            scaledRadii == Radii(FDiv(radii.topLeft, safeScale), FDiv(radii.topRight, safeScale),
                                 FDiv(radii.bottomRight, safeScale), FDiv(radii.bottomLeft, safeScale))
            previewWidth == FDiv(requestedWidth, safeScale)
            previewHeight == FDiv(requestedHeight, safeScale)
            scaledClamped == clampRadiiCss(scaledRadii, previewWidth, previewHeight)
            outputRadii ==
              clampRadiiCss(Radii(FMul(radii.topLeft, safeScale), FMul(radii.topRight, safeScale),
                                  FMul(radii.bottomRight, safeScale), FMul(radii.bottomLeft, safeScale)),
                            requestedWidth, requestedHeight)
            style == ScaledStyle(options, safeScale, scaledClamped)
        IN  [radii |-> radii, outputRadii |-> outputRadii, clipRadii |-> scaledClamped,
             width |-> requestedWidth, height |-> requestedHeight,
             sourceWidth |-> sourceWidth, sourceHeight |-> sourceHeight,
             sourceX |-> sourceX, sourceY |-> sourceY, scale |-> safeScale,
             options |-> Spread(Spread([quality |-> Num(100)], options),
                                [width |-> requestedWidth, height |-> requestedHeight,
                                 style |-> style])]
      ELSE
        LET radiiClamped == clampRadiiCss(radii, targetWidth, targetHeight)
            style == PlainStyle(options, radiiClamped)
        IN  [radii |-> radii, outputRadii |-> radiiClamped, clipRadii |-> radiiClamped,
             width |-> targetWidth, height |-> targetHeight,
             sourceWidth |-> sourceWidth, sourceHeight |-> sourceHeight,
             sourceX |-> sourceX, sourceY |-> sourceY, scale |-> One,
             options |-> Spread(Spread(Spread([quality |-> Num(100)], defaultOptions), options),
                                [width |-> targetWidth, height |-> targetHeight,
                                 style |-> style])]

(***************************************************************************)
(* The SVG document and applySvgOptions.  A node has a tag ("#text" for a  *)
(* text node), the identity it has in the oracle's document (node, 0 for a *)
(* node the export creates), an id attribute (n stands for                 *)
(* "export-rounded-clip-n", 0 for none), a clip-path attribute (n stands   *)
(* for "url(#export-rounded-clip-n)", 0 for none, -1 for any other value)  *)
(* and its child nodes.  It also has a mask and a filter attribute (0 for  *)
(* none), a transform (the sequence of its transform functions), numeric   *)
(* geometry attributes (attrs), a points list, the declarations of its     *)
(* style attribute and its presentation attributes (present).  The root    *)
(* has size attributes and a viewBox as well.                              *)
(***************************************************************************)

SvgNode(tag, node, children) ==
  [tag |-> tag, node |-> node, id |-> 0, clipPath |-> 0, mask |-> 0, filter |-> 0,
   transform |-> <<>>, attrs |-> <<>>, points |-> <<>>, style |-> <<>>, present |-> <<>>,
   children |-> children]

\* the root element of a document
SvgRoot(clipPath, children) ==
  [tag |-> "svg", node |-> 0, id |-> 0, clipPath |-> clipPath, mask |-> 0, filter |-> 0,
   transform |-> <<>>, attrs |-> <<>>, points |-> <<>>, style |-> <<>>, present |-> <<>>,
   children |-> children, width |-> Null, height |-> Null, viewBox |-> <<>>]

\* the sequence s without its element at index i
Without(s, i) == SubSeq(s, 1, i - 1) \o SubSeq(s, i + 1, Len(s))

\* Array.from(children).find(tagName.toLowerCase() === 'defs'): its index, 0 for undefined
FindDefs(children) ==
  LET at == {i \in 1..Len(children) : children[i].tag = "defs"}
  IN  IF at = {} THEN 0 ELSE CHOOSE i \in at : \A j \in at : i <= j

\* faulty variant: the counter is read but not advanced
getClipPathIdStuck(counter) == [counter |-> counter, id |-> counter + 1]

\* faulty variant: a corner of radius 0 counts as rounded
hasRoundedCornerOrZero(clipRadii) ==
  \/ Le(Zero, clipRadii.topLeft)
  \/ Le(Zero, clipRadii.topRight)
  \/ Le(Zero, clipRadii.bottomRight)
  \/ Le(Zero, clipRadii.bottomLeft)

\* the counter after the call, and the number of the returned id
getClipPathId(counter) == [counter |-> counter + 1, id |-> counter + 1]

hasRoundedCorner(clipRadii) ==
  \/ Gt(clipRadii.topLeft, Zero)
  \/ Gt(clipRadii.topRight, Zero)
  \/ Gt(clipRadii.bottomRight, Zero)
  \/ Gt(clipRadii.bottomLeft, Zero)

\* faulty variant: the clip path is referenced from the root, nothing is wrapped
applySvgOptionsOnRoot(svgElement, preparation, counter) ==
  LET sized == [svgElement EXCEPT !.width = preparation.width, !.height = preparation.height]
      fresh == getClipPathId(counter)
  IN  [svgElement |-> [sized EXCEPT !.clipPath = fresh.id], counter |-> fresh.counter]

\* the document root after applySvgOptions, and the counter after it
applySvgOptions(svgElement, preparation, counter) ==
  LET sized == [svgElement EXCEPT !.width = preparation.width, !.height = preparation.height]
  IN  IF ~ hasRoundedCorner(preparation.clipRadii)
      THEN [svgElement |-> [sized EXCEPT !.clipPath = 0], counter |-> counter]
      ELSE LET fresh == getClipPathId(counter)
               found == FindDefs(sized.children)
               children == IF found = 0
                           THEN <<SvgNode("defs", 0, <<>>)>> \o sized.children
                           ELSE sized.children
               at == IF found = 0 THEN 1 ELSE found
               clipPath == [SvgNode("clipPath", 0, <<SvgNode("path", 0, <<>>)>>)
                              EXCEPT !.id = fresh.id]
               defs == [children[at] EXCEPT !.children = Append(@, clipPath)]
               nodesToWrap == Without(children, at)
               wrapper == [SvgNode("g", 0, nodesToWrap) EXCEPT !.clipPath = fresh.id]
           IN  [svgElement |->
                  IF Len(nodesToWrap) = 0
                  THEN [sized EXCEPT !.children = <<defs>>, !.clipPath = fresh.id]
                  ELSE [sized EXCEPT !.children = <<defs, wrapper>>],
                counter |-> fresh.counter]

(***************************************************************************)
(* The legacy SVG passes.  Coordinates, lengths and translations are exact *)
(* decimals counted in units of 1/10000; the linear components of a matrix *)
(* are counted in units of 1/10000000, so that the 1e-6 tolerance of the   *)
(* identity test is 10 units.  A transform is the sequence of its          *)
(* functions, each [fn, args], in the order written.                       *)
(***************************************************************************)

Unit == 10 * 1000
MatrixOne == 1000 * Unit

\* the number an attribute text stands for after formatSvgNumber:
\* Math.round(value * 1000) / 1000
formatSvgNumber(value) == ((value + 5) \div 10) * 10

AbsInt(i) == IF i < 0 THEN 0 - i ELSE i
MinInt(S) == CHOOSE i \in S : \A j \in S : i <= j
MaxInt(S) == CHOOSE i \in S : \A j \in S : i >= j

NoTranslation == [tx |-> 0, ty |-> 0, consumed |-> FALSE]

\* TRANSLATE_REGEX and MATRIX_REGEX are searched anywhere in the attribute text:
\* the first translate(...) wins, else the first matrix(...) is examined
extractTranslation(transformValue) ==
  LET translates == {i \in 1..Len(transformValue) : transformValue[i].fn = "translate"}
      matrices == {i \in 1..Len(transformValue) : transformValue[i].fn = "matrix"}
  IN  IF translates # {}
      THEN LET args == transformValue[MinInt(translates)].args
           IN  [tx |-> IF Len(args) >= 1 THEN args[1] ELSE 0,
                ty |-> IF Len(args) >= 2 THEN args[2] ELSE 0,
                consumed |-> TRUE]
      ELSE IF matrices # {}
      THEN LET components == transformValue[MinInt(matrices)].args
           IN  IF Len(components) = 6
               THEN LET isIdentityScale == /\ AbsInt(components[1] - MatrixOne) < 10
                                           /\ AbsInt(components[4] - MatrixOne) < 10
                        isZeroSkew == AbsInt(components[2]) < 10 /\ AbsInt(components[3]) < 10
                    IN  IF isIdentityScale /\ isZeroSkew
                        THEN [tx |-> components[5], ty |-> components[6], consumed |-> TRUE]
                        ELSE NoTranslation
               ELSE NoTranslation
      ELSE NoTranslation

\* parseNumericAttribute(element.getAttribute(name)) ?? 0
Attr(element, name) == IF name \in DOMAIN element.attrs THEN element.attrs[name] ELSE 0

\* the points recordBounds receives for one element whose total offset is (tx, ty)
ElementBounds(element, tx, ty) ==
  CASE element.tag = "rect" ->
         LET x == Attr(element, "x") + tx
             y == Attr(element, "y") + ty
         IN  {<<x, y>>, <<x + Attr(element, "width"), y + Attr(element, "height")>>}
    [] element.tag = "circle" ->
         LET cx == Attr(element, "cx") + tx
             cy == Attr(element, "cy") + ty
             r == Attr(element, "r")
         IN  {<<cx - r, cy - r>>, <<cx + r, cy + r>>}
    [] element.tag = "ellipse" ->
         LET cx == Attr(element, "cx") + tx
             cy == Attr(element, "cy") + ty
         IN  {<<cx - Attr(element, "rx"), cy - Attr(element, "ry")>>,
              <<cx + Attr(element, "rx"), cy + Attr(element, "ry")>>}
    [] element.tag = "line" ->
         {<<Attr(element, "x1") + tx, Attr(element, "y1") + ty>>,
          <<Attr(element, "x2") + tx, Attr(element, "y2") + ty>>}
    [] element.tag \in {"polyline", "polygon"} ->
         {<<element.points[i][1] + tx, element.points[i][2] + ty>> :
            i \in 1..Len(element.points)}
    [] element.tag \in {"text", "tspan"} ->
         {<<Attr(element, "x") + tx, Attr(element, "y") + ty>>}
    [] OTHER -> {}

\* the element after its adjustment ran with the bounding-box minimum as offset
Adjusted(element, tx, ty, offsetX, offsetY) ==
  LET X(name) == formatSvgNumber(Attr(element, name) + tx - offsetX)
      Y(name) == formatSvgNumber(Attr(element, name) + ty - offsetY)
  IN  CASE element.tag \in {"rect", "text", "tspan"} ->
             [element EXCEPT !.attrs = [x |-> X("x"), y |-> Y("y")] @@ @]
        [] element.tag \in {"circle", "ellipse"} ->
             [element EXCEPT !.attrs = [cx |-> X("cx"), cy |-> Y("cy")] @@ @]
        [] element.tag = "line" ->
             [element EXCEPT !.attrs = [x1 |-> X("x1"), y1 |-> Y("y1"),
                                        x2 |-> X("x2"), y2 |-> Y("y2")] @@ @]
        [] element.tag \in {"polyline", "polygon"} /\ Len(element.points) > 0 ->
             [element EXCEPT !.points =
                [i \in 1..Len(element.points) |->
                   <<formatSvgNumber(element.points[i][1] + tx - offsetX),
                     formatSvgNumber(element.points[i][2] + ty - offsetY)>>]]
        [] OTHER -> element

IsElement(node) == node.tag # "#text"

\* the points recorded by walk over the elements of nodes, below offset (parentTx, parentTy)
RECURSIVE WalkBounds(_, _, _)
WalkBounds(nodes, parentTx, parentTy) ==
  IF Len(nodes) = 0 THEN {}
  ELSE LET element == Head(nodes)
           t == extractTranslation(element.transform)
           totalTx == parentTx + t.tx
           totalTy == parentTy + t.ty
       IN  (IF IsElement(element)
            THEN ElementBounds(element, totalTx, totalTy)
                   \cup WalkBounds(element.children, totalTx, totalTy)
            ELSE {})
           \cup WalkBounds(Tail(nodes), parentTx, parentTy)

\* faulty variant: an element is placed by its own translation only
RECURSIVE WalkNodesOwn(_, _, _, _, _, _)
WalkNodesOwn(nodes, parentTx, parentTy, adjust, offsetX, offsetY) ==
  IF Len(nodes) = 0 THEN <<>>
  ELSE LET element == Head(nodes)
           t == extractTranslation(element.transform)
           placed == IF adjust THEN Adjusted(element, t.tx, t.ty, offsetX, offsetY)
                     ELSE element
           walked == [placed EXCEPT
                        !.transform = IF t.consumed THEN <<>> ELSE @,
                        !.children = WalkNodesOwn(@, t.tx, t.ty, adjust, offsetX, offsetY)]
       IN  <<IF IsElement(element) THEN walked ELSE element>>
             \o WalkNodesOwn(Tail(nodes), parentTx, parentTy, adjust, offsetX, offsetY)

\* the nodes after walk removed the consumed transforms and, when adjust, after
\* the recorded adjustments ran
RECURSIVE WalkNodes(_, _, _, _, _, _)
WalkNodes(nodes, parentTx, parentTy, adjust, offsetX, offsetY) ==
  IF Len(nodes) = 0 THEN <<>>
  ELSE LET element == Head(nodes)
           t == extractTranslation(element.transform)
           totalTx == parentTx + t.tx
           totalTy == parentTy + t.ty
           placed == IF adjust THEN Adjusted(element, totalTx, totalTy, offsetX, offsetY)
                     ELSE element
           walked == [placed EXCEPT
                        !.transform = IF t.consumed THEN <<>> ELSE @,
                        !.children = WalkNodes(@, totalTx, totalTy, adjust, offsetX, offsetY)]
       IN  <<IF IsElement(element) THEN walked ELSE element>>
             \o WalkNodes(Tail(nodes), parentTx, parentTy, adjust, offsetX, offsetY)

\* faulty variant: the adjustments run with offset 0
normalizeLegacyCoordinatesUnshifted(svgElement) ==
  LET recorded == WalkBounds(<<svgElement>>, 0, 0)
  IN  WalkNodes(<<svgElement>>, 0, 0, recorded # {}, 0, 0)[1]

\* the document root after normalizeLegacyCoordinates
normalizeLegacyCoordinates(svgElement) ==
  LET recorded == WalkBounds(<<svgElement>>, 0, 0)
  IN  IF recorded = {} THEN WalkNodes(<<svgElement>>, 0, 0, FALSE, 0, 0)[1]
      ELSE LET minX == MinInt({p[1] : p \in recorded})
               minY == MinInt({p[2] : p \in recorded})
               maxX == MaxInt({p[1] : p \in recorded})
               maxY == MaxInt({p[2] : p \in recorded})
               viewBoxWidth == IF maxX - minX > Unit THEN maxX - minX ELSE Unit
               viewBoxHeight == IF maxY - minY > Unit THEN maxY - minY ELSE Unit
           IN  [WalkNodes(<<svgElement>>, 0, 0, TRUE, minX, minY)[1] EXCEPT
                  !.viewBox = <<0, 0, formatSvgNumber(viewBoxWidth),
                                formatSvgNumber(viewBoxHeight)>>]

\* the document root after applyStrictRootSize; width and height are numbers
\* of the preparation, the root's own size attributes are numbers or Null
applyStrictRootSize(svgElement, width, height) ==
  LET fallbackWidth == Coalesce(parseDimension(svgElement.width), defaultOptions.width)
      fallbackHeight == Coalesce(parseDimension(svgElement.height), defaultOptions.height)
      resolvedWidth == IF IsFinite(width) /\ Gt(width, Zero) THEN width ELSE fallbackWidth
      resolvedHeight == IF IsFinite(height) /\ Gt(height, Zero) THEN height ELSE fallbackHeight
      widthPx == IF MathRound(resolvedWidth) > 1 THEN MathRound(resolvedWidth) ELSE 1
      heightPx == IF MathRound(resolvedHeight) > 1 THEN MathRound(resolvedHeight) ELSE 1
  IN  [svgElement EXCEPT !.width = Num(widthPx), !.height = Num(heightPx),
                         !.viewBox = <<0, 0, formatSvgNumber(widthPx * Unit),
                                       formatSvgNumber(heightPx * Unit)>>]

(***************************************************************************)
(* CSS custom properties in the legacy pass.  A value is [name, text]: the *)
(* literal text when name is "", else var(name, text) with text the        *)
(* fallback ("" for none).  A style attribute is the sequence of its       *)
(* parsed declarations <<property, value>>.                                *)
(***************************************************************************)

Lit(text) == [name |-> "", text |-> text]
Var(name, fallback) == [name |-> name, text |-> fallback]
IsEmptyValue(value) == value.name = "" /\ value.text = ""
IncludesVar(value) == value.name # ""
\* a text that includes "var(" in a form VAR_FUNCTION_PATTERN does not match
Unmatched(text) == [name |-> "var(", text |-> text]
Matches(value) == value.name # "var("

MAX_CSS_VAR_DEPTH == 10

\* faulty variant: the depth is not limited
TooDeepNever(depth) == FALSE

TooDeep(depth) == depth > MAX_CSS_VAR_DEPTH

\* property.startsWith(CSS_VARIABLE_PREFIX), for the property names in use
CssVariables == {"--c", "--d"}

LEGACY_STYLE_ATTRIBUTES ==
  {"fill", "stroke", "stroke-width", "stroke-linecap", "stroke-linejoin",
   "stroke-miterlimit", "stroke-dasharray", "stroke-dashoffset", "fill-opacity",
   "fill-rule", "clip-rule", "stroke-opacity", "opacity", "transform", "font-size",
   "font-family", "font-weight", "font-style", "shape-rendering", "vector-effect",
   "text-anchor", "dominant-baseline", "letter-spacing", "word-spacing"}

disallowedTags ==
  {"defs", "style", "mask", "clipPath", "filter", "foreignObject", "image", "symbol", "use"}

RECURSIVE resolveCssVariables(_, _, _)
resolveCssVariables(value, variables, depth) ==
  IF IsEmptyValue(value) THEN value
  ELSE IF ~ IncludesVar(value) \/ TooDeep(depth) THEN value
  ELSE IF ~ Matches(value) THEN value
  ELSE LET known == value.name \in DOMAIN variables
           replaced ==
             IF known /\ ~ IsEmptyValue(variables[value.name])
                      /\ variables[value.name] # Lit(value.name)
             THEN resolveCssVariables(variables[value.name], variables, depth + 1)
             ELSE IF value.text # ""
             THEN resolveCssVariables(Lit(value.text), variables, depth + 1)
             ELSE Lit("")
       IN  IF IncludesVar(replaced) /\ depth < MAX_CSS_VAR_DEPTH
           THEN resolveCssVariables(replaced, variables, depth + 1)
           ELSE replaced

\* the local variable map after the variable declarations of a style, in order
RECURSIVE DeclareVariables(_, _)
DeclareVariables(declarations, localVariables) ==
  IF Len(declarations) = 0 THEN localVariables
  ELSE LET property == Head(declarations)[1]
           value == Head(declarations)[2]
       IN  DeclareVariables(Tail(declarations),
             IF property \in CssVariables
             THEN (property :> resolveCssVariables(value, localVariables, 0)) @@ localVariables
             ELSE localVariables)

\* the presentation attributes after the other declarations of a style, in order
RECURSIVE ApplyDeclarations(_, _, _)
ApplyDeclarations(declarations, present, localVariables) ==
  IF Len(declarations) = 0 THEN present
  ELSE LET property == Head(declarations)[1]
           resolved == resolveCssVariables(Head(declarations)[2], localVariables, 0)
       IN  ApplyDeclarations(Tail(declarations),
             IF property \in CssVariables \/ property \notin LEGACY_STYLE_ATTRIBUTES
                \/ property \in DOMAIN present \/ IsEmptyValue(resolved)
             THEN present
             ELSE (property :> resolved) @@ present,
             localVariables)

\* faulty variant: only the elements of nodes themselves are examined
RemoveDisallowedShallow(nodes) ==
  SelectSeq(nodes, LAMBDA node : node.tag \notin disallowedTags)

\* the nodes without the elements of a disallowed tag, at any depth
RECURSIVE RemoveDisallowed(_)
RemoveDisallowed(nodes) ==
  IF Len(nodes) = 0 THEN <<>>
  ELSE (IF Head(nodes).tag \in disallowedTags THEN <<>>
        ELSE <<[Head(nodes) EXCEPT !.children = RemoveDisallowed(@)]>>)
       \o RemoveDisallowed(Tail(nodes))

\* faulty variant: the children are walked with the variables of the document so far
RECURSIVE StripWalkLeaking(_, _)
StripWalkLeaking(nodes, inheritedVariables) ==
  IF Len(nodes) = 0 THEN [nodes |-> <<>>, variables |-> inheritedVariables]
  ELSE LET element == Head(nodes)
           localVariables == DeclareVariables(element.style, inheritedVariables)
           styled == [element EXCEPT
                        !.clipPath = 0, !.mask = 0, !.filter = 0,
                        !.present = ApplyDeclarations(element.style, @, localVariables),
                        !.style = <<>>]
           below == StripWalkLeaking(element.children, localVariables)
           rest == StripWalkLeaking(Tail(nodes), below.variables)
       IN  [nodes |-> <<IF IsElement(element) THEN [styled EXCEPT !.children = below.nodes]
                        ELSE element>> \o rest.nodes,
            variables |-> rest.variables]

\* walk of stripUnsupportedForLegacy over the elements of nodes
RECURSIVE StripWalk(_, _)
StripWalk(nodes, inheritedVariables) ==
  IF Len(nodes) = 0 THEN [nodes |-> <<>>, variables |-> inheritedVariables]
  ELSE LET element == Head(nodes)
           hasStyle == Len(element.style) > 0
           localVariables == DeclareVariables(element.style, inheritedVariables)
           activeVariables == IF hasStyle THEN localVariables ELSE inheritedVariables
           styled == [element EXCEPT
                        !.clipPath = 0, !.mask = 0, !.filter = 0,
                        !.present = IF hasStyle
                                    THEN ApplyDeclarations(element.style, @, localVariables)
                                    ELSE @,
                        !.style = <<>>]
           resolved == [styled EXCEPT !.present =
                          [a \in DOMAIN @ |->
                             IF a \in LEGACY_STYLE_ATTRIBUTES /\ ~ IsEmptyValue(@[a])
                                /\ IncludesVar(@[a])
                             THEN resolveCssVariables(@[a], activeVariables, 0)
                             ELSE @[a]]]
           below == StripWalk(element.children, activeVariables)
           rest == StripWalk(Tail(nodes), inheritedVariables)
       IN  [nodes |-> <<IF IsElement(element) THEN [resolved EXCEPT !.children = below.nodes]
                        ELSE element>> \o rest.nodes,
            variables |-> inheritedVariables]

\* the document root after stripUnsupportedForLegacy
stripUnsupportedForLegacy(svgElement) ==
  StripWalk(<<[svgElement EXCEPT !.children = RemoveDisallowed(@)]>>, <<>>).nodes[1]

\* the document root getLegacySvgString serializes
getLegacySvgString(svgElement, preparation) ==
  applyStrictRootSize(normalizeLegacyCoordinates(stripUnsupportedForLegacy(svgElement)),
                      preparation.width, preparation.height)

(***************************************************************************)
(* State                                                                   *)
(***************************************************************************)
VARIABLES
  geo,    \* one evaluation of clampRadiiCss, and of clampRadiiCss on its result
  prep,   \* one call of getExportPreparation: the caller's arguments and the result
  svgRun,     \* one call of applySvgOptions: document, preparation, counter, result
  legacyRun,  \* one run of the legacy SVG passes on a document
  cssRun,     \* one call of resolveCssVariables, step by step: its stack of callers
  calls,  \* the export calls in flight: arguments, position, promise, resources
  clipboardSupported,  \* IS_COPY_IMAGE_TO_CLIPBOARD_SUPPORTED
  clipPathIdCounter    \* the module-level counter of getClipPathId

vars == <<geo, prep, svgRun, legacyRun, cssRun, calls, clipboardSupported, clipPathIdCounter>>
pureVars == <<geo, prep, svgRun, legacyRun, cssRun>>
exportVars == <<calls, clipboardSupported, clipPathIdCounter>>

NoRadii == Radii(Zero, Zero, Zero, Zero)

RadiusValues == {0, 5, 20, 48}
BoxWidths == {3, 11, 40, 100}
BoxHeights == {3, 11, 40, 100}

GeoIdle ==
  [phase |-> "idle", r |-> NoRadii, width |-> One, height |-> One,
   once |-> NoRadii, twice |-> NoRadii]

GeoInputs ==
  {[phase |-> "input", r |-> Radii(Num(tl), Num(tr), Num(br), Num(bl)),
    width |-> Num(w), height |-> Num(h), once |-> NoRadii, twice |-> NoRadii] :
     tl \in RadiusValues, tr \in RadiusValues, br \in RadiusValues, bl \in RadiusValues,
     w \in BoxWidths, h \in BoxHeights}

\* the rendered element: its layout size and its computed corner radii
ElementOf(ow, oh, tl, rest) ==
  [offsetWidth |-> Num(ow), offsetHeight |-> Num(oh),
   rect |-> [x |-> Zero, y |-> Zero, width |-> Num(ow), height |-> Num(oh)],
   computedStyle |-> [borderTopLeftRadius |-> tl, borderTopRightRadius |-> rest,
                      borderBottomRightRadius |-> rest, borderBottomLeftRadius |-> rest]]

Px(v) == <<"px", <<Num(v)>> >>

NaturalWidths == {0, 300}
NaturalHeights == {0, 200, 300}
CornerTexts == {EmptyText, Px(0), Px(48)}
RadiusHints == {EmptyText, Px(24)}
RequestedWidths == {Null, Zero, Num(100), Num(150)}
RequestedHeights == {Null, Num(40), Num(150)}
CallerQualities == {Null, <<1, 2>>}

GeometricKeys ==
  {"overflow", "borderTopLeftRadius", "borderTopRightRadius", "borderBottomRightRadius",
   "borderBottomLeftRadius", "borderRadius", "clipPath", "webkitClipPath"}
ScaledKeys == {"transform", "transformOrigin"}
OtherKeys == {"color", "border-radius"}

CallerStyles ==
  {[k \in {} |-> Text("caller")],
   [k \in OtherKeys |-> Text("caller")],
   [k \in GeometricKeys \cup ScaledKeys \cup {"color"} |-> Text("caller")]}

\* the caller's options object: only the keys the caller wrote are present
Field(key, value) == IF value = Null THEN <<>> ELSE [k \in {key} |-> value]

OptionsOf(w, h, q, st) ==
  Spread(Spread(Field("width", w), Field("height", h)),
         Spread(Field("quality", q), IF Len(st) = 0 THEN <<>> ELSE [style |-> st[1]]))

\* no style, or one of the caller styles
StyleChoices == {<<>>} \cup {<<c>> : c \in CallerStyles}

PrepIdle ==
  [phase |-> "idle", element |-> ElementOf(0, 0, EmptyText, EmptyText), options |-> <<>>,
   borderRadius |-> EmptyText, out |-> <<>>]

PrepInputs ==
  {[phase |-> "input", element |-> ElementOf(ow, oh, tl, rest),
    options |-> OptionsOf(w, h, q, st), borderRadius |-> hint, out |-> <<>>] :
     ow \in NaturalWidths, oh \in NaturalHeights, tl \in CornerTexts, rest \in CornerTexts,
     hint \in RadiusHints, w \in RequestedWidths, h \in RequestedHeights,
     q \in CallerQualities, st \in StyleChoices}

\* the export calls that may be in flight together
MaxCalls == 1
CallIds == 1..MaxCalls

\* a null element reference: it has no property to read
NullElement == <<>>
IsNullElement(element) == DOMAIN element = {}

\* a call slot before the call is made
IdleCall ==
  [op |-> "idle", element |-> NullElement, options |-> <<>>, borderRadius |-> EmptyText,
   pc |-> "idle", ret |-> "none", promise |-> "none", value |-> "none",
   prep |-> <<>>, rendered |-> <<>>, oracle |-> <<>>,
   decodeUrl |-> "none", anchorUrl |-> "none", clicked |-> FALSE,
   cornerFailure |-> "none", logged |-> <<>>,
   oracleOptions |-> <<>>, clipboard |-> "none", svg |-> <<>>, clipPathId |-> 0]

ExportIdle ==
  /\ calls = [c \in CallIds |-> IdleCall]
  /\ clipboardSupported = TRUE
  /\ clipPathIdCounter = 0

\* the child nodes a document root may have
MaxChildren == 3
SvgTags == {"rect", "#text", "defs"}
SvgChildLists ==
  {[i \in DOMAIN tags |-> SvgNode(tags[i], i, <<>>)] :
     tags \in UNION {[1..n -> SvgTags] : n \in 0..MaxChildren}}
RootClipPaths == {0, -1}
SvgClipRadii ==
  {NoRadii, Radii(Num(48), Num(48), Num(48), Num(48)), Radii(Zero, Zero, Zero, Num(5))}
SvgCounters == {0, 2}

SvgRunIdle ==
  [phase |-> "idle", svgElement |-> SvgRoot(0, <<>>),
   preparation |-> [clipRadii |-> NoRadii, width |-> One, height |-> One],
   counter |-> 0, out |-> <<>>]

SvgRunInputs ==
  {[phase |-> "input", svgElement |-> SvgRoot(clipPath, children),
    preparation |-> [clipRadii |-> clipRadii, width |-> Num(150), height |-> Num(150)],
    counter |-> counter, out |-> <<>>] :
     clipPath \in RootClipPaths, children \in SvgChildLists, clipRadii \in SvgClipRadii,
     counter \in SvgCounters}

\* transform functions, arguments in the units of the legacy passes
Fn(fn, args) == [fn |-> fn, args |-> args]
Translate(tx, ty) == Fn("translate", <<tx * Unit, ty * Unit>>)
\* matrix(a b c d e f) with a = 1 + da/10000000 and d = 1, b = c = skew/10000000
Matrix(da, skew, e, f) ==
  Fn("matrix", <<MatrixOne + da, skew, skew, MatrixOne, e * Unit, f * Unit>>)

GroupTransforms ==
  {<<>>,
   <<Translate(5, 5)>>,
   <<Fn("translate", <<-3 * Unit>>)>>,
   <<Matrix(5, 0, 5, 0)>>,
   <<Matrix(20, 0, 5, 0)>>,
   <<Matrix(0, 1000, 5, 5)>>,
   <<Fn("scale", <<2 * Unit>>)>>,
   <<Translate(5, 5), Fn("scale", <<2 * Unit>>)>>,
   <<Fn("rotate", <<45 * Unit>>), Matrix(0, 0, 5, 5)>>}
InnerTransforms == {<<>>, <<Translate(2, -7)>>}

Shape(tag, node, attrs) == [SvgNode(tag, node, <<>>) EXCEPT !.attrs = attrs]
Group(node, transform, children) == [SvgNode("g", node, children) EXCEPT !.transform = transform]

\* the shape inside the outer group
FirstShapes ==
  {Shape("rect", 2, [x |-> 10 * Unit, y |-> 10 * Unit, width |-> 20 * Unit, height |-> 20 * Unit]),
   Shape("rect", 2, [x |-> 10 * Unit + 4, y |-> 0, width |-> 20 * Unit, height |-> 5]),
   Shape("circle", 2, [cx |-> 0, cy |-> 0, r |-> 5 * Unit]),
   Shape("circle", 2, [cx |-> 0, cy |-> 0, r |-> 5 * Unit + 4])}
\* what else the outer group holds: nothing, or an inner group with a shape
InnerGroups ==
  {<<>>} \cup
  {<<Group(3, transform, <<shape>>)>> :
     transform \in InnerTransforms,
     shape \in {Shape("text", 4, [x |-> 0, y |-> -5 * Unit]),
                [SvgNode("polygon", 4, <<>>) EXCEPT
                   !.points = <<<<0, 0>>, <<30 * Unit, 6>>, <<-2 * Unit, 8 * Unit>>>>]}}
\* what follows the outer group under the root
Siblings ==
  {<<>>,
   <<[Shape("line", 5, [x1 |-> -5 * Unit, y1 |-> 0, x2 |-> 7 * Unit, y2 |-> 7 * Unit])
        EXCEPT !.transform = <<Translate(1, 1)>>]>>,
   <<Shape("ellipse", 5, [cx |-> 50 * Unit, cy |-> 50 * Unit, rx |-> 10 * Unit, ry |-> 5 * Unit])>>,
   <<Shape("path", 5, [x |-> -100 * Unit, y |-> -100 * Unit])>>}

GeometryDocuments ==
  {SvgRoot(0, <<Group(1, outer, <<first>> \o inner)>> \o sibling) :
     outer \in GroupTransforms, first \in FirstShapes, inner \in InnerGroups,
     sibling \in Siblings}

\* style attributes: declarations of --c and --d, and a fill that uses --c
RootStyles == {<<>>, << <<"--c", Lit("blue")>> >>}
GroupStyles ==
  {<<>>,
   << <<"--c", Lit("green")>> >>,
   << <<"--d", Lit("black")>>, <<"--c", Var("--d", "gray")>> >>,
   << <<"cursor", Lit("pointer")>> >>}
ShapeStyles ==
  {<< <<"fill", Var("--c", "red")>> >>,
   << <<"fill", Var("--c", "")>>, <<"stroke", Lit("black")>> >>,
   << <<"--c", Lit("pink")>>, <<"fill", Var("--c", "red")>> >>}
PresetAttributes == {<<>>, [stroke |-> Var("--c", "white")]}

Styled(node, style) == [node EXCEPT !.style = style]

\* root{ g1{ rect2 }, g3{ circle4, use7 }, defs5{ rect6 } }
StyleDocument(root, outer, first, preset) ==
  LET rect2 == [Styled(Shape("rect", 2, [x |-> 0, y |-> 0]), first) EXCEPT !.present = preset]
      g1 == [Styled(Group(1, <<>>, <<rect2>>), outer) EXCEPT !.mask = -1]
      circle4 == [Styled(Shape("circle", 4, [r |-> Unit]), << <<"fill", Var("--c", "red")>> >>)
                    EXCEPT !.filter = -1]
      g3 == Group(3, <<>>, <<circle4, SvgNode("use", 7, <<>>)>>)
      defs5 == SvgNode("defs", 5, <<Shape("rect", 6, <<>>)>>)
  IN  Styled(SvgRoot(-1, <<g1, g3, defs5>>), root)

StyleDocuments ==
  {StyleDocument(root, outer, first, preset) :
     root \in RootStyles, outer \in GroupStyles, first \in ShapeStyles,
     preset \in PresetAttributes}

LegacyDocuments == GeometryDocuments \cup StyleDocuments
LegacySizes == {Num(300), Num(150)}

LegacyIdle ==
  [phase |-> "idle", svgElement |-> SvgRoot(0, <<>>), width |-> One, height |-> One,
   stripped |-> <<>>, normalized |-> <<>>, out |-> <<>>]

LegacyInputs ==
  {[phase |-> "input", svgElement |-> svgElement, width |-> size, height |-> size,
    stripped |-> <<>>, normalized |-> <<>>, out |-> <<>>] :
     svgElement \in LegacyDocuments, size \in LegacySizes}

\* the values and the variable maps resolveCssVariables is called with: maps
\* with a variable that refers to itself, two that refer to each other, one
\* whose value is its own name, and texts the pattern does not match
CssValues ==
  {Lit(""), Lit("red"), Var("--c", ""), Var("--c", "red"), Var("--d", ""),
   Unmatched("var(x)")}
CssMapValues ==
  {Lit("blue"), Lit("--c"), Var("--c", ""), Var("--d", "red"), Unmatched("var(")}
CssMaps == UNION {[names -> CssMapValues] : names \in SUBSET CssVariables}

CssIdle ==
  [phase |-> "idle", value |-> Lit(""), variables |-> <<>>, stack |-> <<>>,
   at |-> [value |-> Lit(""), depth |-> 0], deepest |-> 0, out |-> Lit("")]

\* the call resolveCssVariables(value, variables) is about to run, depth = 0
CssInputs ==
  {[CssIdle EXCEPT !.phase = "call", !.value = value, !.variables = variables,
                   !.at = [value |-> value, depth |-> 0]] :
     value \in CssValues, variables \in CssMaps}

CssInit ==
  /\ geo = GeoIdle
  /\ prep = PrepIdle
  /\ svgRun = SvgRunIdle
  /\ legacyRun = LegacyIdle
  /\ cssRun \in CssInputs
  /\ ExportIdle

\* resolveCssVariables(value, variables, depth) is called from the call at the
\* top of the stack
Enter(run, value, depth) ==
  [run EXCEPT !.phase = "call", !.at = [value |-> value, depth |-> depth],
              !.deepest = IF depth > @ THEN depth ELSE @]

\* the call at run.at runs from its entry: to a return, or to the call the
\* replace callback makes
ResolveCall ==
  /\ cssRun.phase = "call"
  /\ LET value == cssRun.at.value
         depth == cssRun.at.depth
         known == value.name \in DOMAIN cssRun.variables
         waiting == [cssRun EXCEPT !.stack = Append(@, depth)]
     IN  cssRun' =
           IF IsEmptyValue(value) \/ ~ IncludesVar(value) \/ TooDeep(depth)
              \/ ~ Matches(value)
           THEN [cssRun EXCEPT !.phase = "return"]
           ELSE IF known /\ ~ IsEmptyValue(cssRun.variables[value.name])
                         /\ cssRun.variables[value.name] # Lit(value.name)
           THEN Enter(waiting, cssRun.variables[value.name], depth + 1)
           ELSE IF value.text # ""
           THEN Enter(waiting, Lit(value.text), depth + 1)
           ELSE [cssRun EXCEPT !.phase = "return", !.at.value = Lit("")]
  /\ UNCHANGED <<geo, prep, svgRun, legacyRun, exportVars>>

\* a call returns run.at.value: to the caller of resolveCssVariables, or into
\* the callback of the call at the top of the stack, which returns it or calls
\* again on it
ResolveReturn ==
  /\ cssRun.phase = "return"
  /\ cssRun' =
       IF Len(cssRun.stack) = 0
       THEN [cssRun EXCEPT !.phase = "done", !.out = cssRun.at.value]
       ELSE LET depth == cssRun.stack[Len(cssRun.stack)]
                replaced == cssRun.at.value
                popped == [cssRun EXCEPT !.stack = SubSeq(@, 1, Len(@) - 1)]
            IN  IF IncludesVar(replaced) /\ depth < MAX_CSS_VAR_DEPTH
                THEN Enter(popped, replaced, depth + 1)
                ELSE popped
  /\ UNCHANGED <<geo, prep, svgRun, legacyRun, exportVars>>

CssNext == ResolveCall \/ ResolveReturn

CssSpec == CssInit /\ [][CssNext]_vars

\* a call that has started runs on: JavaScript runs it to completion
FairCssSpec == CssSpec /\ WF_vars(CssNext)

LegacyInit ==
  /\ geo = GeoIdle
  /\ prep = PrepIdle
  /\ svgRun = SvgRunIdle
  /\ legacyRun \in LegacyInputs
  /\ cssRun = CssIdle
  /\ ExportIdle

\* the passes of getLegacySvgString, in its order
LegacyStrip ==
  /\ legacyRun.phase = "input"
  /\ legacyRun' = [legacyRun EXCEPT !.phase = "stripped",
                     !.stripped = stripUnsupportedForLegacy(legacyRun.svgElement)]
  /\ UNCHANGED <<geo, prep, svgRun, cssRun, exportVars>>

LegacyNormalize ==
  /\ legacyRun.phase = "stripped"
  /\ legacyRun' = [legacyRun EXCEPT !.phase = "normalized",
                     !.normalized = normalizeLegacyCoordinates(legacyRun.stripped)]
  /\ UNCHANGED <<geo, prep, svgRun, cssRun, exportVars>>

LegacySize ==
  /\ legacyRun.phase = "normalized"
  /\ legacyRun' = [legacyRun EXCEPT !.phase = "done",
                     !.out = applyStrictRootSize(legacyRun.normalized, legacyRun.width,
                                                 legacyRun.height)]
  /\ UNCHANGED <<geo, prep, svgRun, cssRun, exportVars>>

LegacyNext == LegacyStrip \/ LegacyNormalize \/ LegacySize

LegacySpec == LegacyInit /\ [][LegacyNext]_vars

PureInit ==
  /\ cssRun = CssIdle
  /\ \/ geo \in GeoInputs /\ prep = PrepIdle /\ svgRun = SvgRunIdle /\ legacyRun = LegacyIdle
     \/ geo = GeoIdle /\ prep \in PrepInputs /\ svgRun = SvgRunIdle /\ legacyRun = LegacyIdle
     \/ geo = GeoIdle /\ prep = PrepIdle /\ svgRun \in SvgRunInputs /\ legacyRun = LegacyIdle
  /\ ExportIdle

ApplySvg ==
  /\ svgRun.phase = "input"
  /\ svgRun' = [svgRun EXCEPT !.phase = "done",
                              !.out = applySvgOptions(svgRun.svgElement, svgRun.preparation,
                                                      svgRun.counter)]
  /\ UNCHANGED <<geo, prep, legacyRun, cssRun, exportVars>>

Clamp ==
  /\ geo.phase = "input"
  /\ geo' = [geo EXCEPT !.phase = "once",
                        !.once = clampRadiiCss(geo.r, geo.width, geo.height)]
  /\ UNCHANGED <<prep, svgRun, legacyRun, cssRun, exportVars>>

ClampAgain ==
  /\ geo.phase = "once"
  /\ geo' = [geo EXCEPT !.phase = "twice",
                        !.twice = clampRadiiCss(geo.once, geo.width, geo.height)]
  /\ UNCHANGED <<prep, svgRun, legacyRun, cssRun, exportVars>>

Prepare ==
  /\ prep.phase = "input"
  /\ prep' = [prep EXCEPT !.phase = "done",
                          !.out = getExportPreparation(prep.element, prep.options,
                                                       prep.borderRadius)]
  /\ UNCHANGED <<geo, svgRun, legacyRun, cssRun, exportVars>>

PureNext == Clamp \/ ClampAgain \/ Prepare \/ ApplySvg

PureSpec == PureInit /\ [][PureNext]_vars

(***************************************************************************)
(* The export operations.  A call runs synchronously to its first          *)
(* suspension point; every later step is the oracle's promise settling or  *)
(* a browser callback firing, followed by the code that runs on it.        *)
(***************************************************************************)

RasterOps == {"copyImageToClipboard", "getPngElement", "downloadPngElement"}
JpgOps == {"getJpgElement", "downloadJpgElement"}
SvgOps == {"getSvgString", "getSvgElement", "downloadSvgElement"}
LegacyOps == {"getLegacySvgString", "getLegacySvgElement", "downloadLegacySvgElement"}
DownloadOps ==
  {"downloadPngElement", "downloadJpgElement", "downloadSvgElement", "downloadLegacySvgElement"}
Ops == RasterOps \cup JpgOps \cup SvgOps \cup LegacyOps
PromiseOps == Ops \ DownloadOps

TheElement == ElementOf(300, 300, Px(48), Px(48))
ExportElements == {NullElement, TheElement}
ExportOptions ==
  {<<>>, [width |-> Num(150), height |-> Num(150)],
   [width |-> Num(150), height |-> Num(150), style |-> [color |-> Text("caller")]]}
\* the document elementToSVG returns
ExportDocuments == {SvgRoot(0, <<SvgNode("rect", 1, <<>>), SvgNode("#text", 2, <<>>)>>)}

\* parseInt(text.replace('px', ''), 10) of a non-negative number text
ParseInt(text) == Num(text[2][1][1] \div text[2][1][2])

\* the options handed to toJpeg.  Reading a property of a null element throws:
\* the result is then <<"throw">>, else <<"return", options>>.
getFormattedJpegOptions(element, options, borderRadius) ==
  IF Truthy(Get(options, "width")) /\ Truthy(Get(options, "height"))
  THEN IF IsNullElement(element) THEN <<"throw">>
       ELSE LET scale == OrElse(getResizeScaleToFit(element, options.width, options.height), One)
                radiusValue == IF Len(borderRadius[2]) # 0 THEN ParseInt(borderRadius)
                               ELSE Num(DEFAULT_RADIUS)
                scaledRadius == <<"px", <<FDiv(radiusValue, scale)>> >>
            IN  <<"return",
                  Spread([style |-> [transform |-> <<"scale", <<scale>> >>,
                                     transformOrigin |-> Text("left top"),
                                     borderRadius |-> scaledRadius,
                                     overflow |-> Text("hidden")],
                          quality |-> Num(100)],
                         options)>>
  ELSE <<"return", Spread(Spread([quality |-> Num(100)], defaultOptions), options)>>

Log(call, message) == [call EXCEPT !.logged = Append(@, message)]

ErrorMessage(op) ==
  CASE op = "copyImageToClipboard" -> "Error copying image to clipboard:"
    [] op = "downloadPngElement" -> "Error converting element to PNG:"
    [] op = "downloadJpgElement" -> "Error converting element to JPG:"
    [] op = "downloadSvgElement" -> "Error converting element to SVG:"
    [] OTHER -> "Error converting element to legacy SVG:"

\* faulty variant: every operation swallows the failure and resolves
FailSwallowed(call, error) ==
  [Log(call, ErrorMessage(call.op)) EXCEPT
     !.pc = "done",
     !.promise = IF call.op \in DownloadOps THEN "none" ELSE "resolved"]

\* a failure reaches the end of the operation's promise chain: the catch of
\* copyImageToClipboard and of the download operations logs it, the other
\* operations reject with it
Fail(call, error) ==
  IF call.op = "copyImageToClipboard" \/ call.op \in DownloadOps
  THEN [Log(call, ErrorMessage(call.op)) EXCEPT
          !.pc = "done",
          !.promise = IF call.op \in DownloadOps THEN "none" ELSE "resolved"]
  ELSE [call EXCEPT !.pc = "done", !.promise = "rejected", !.value = error]

\* the operation's promise resolves with value
Resolve(call, value) ==
  [call EXCEPT !.pc = "done", !.promise = "resolved", !.value = value]

\* the last oracle call of the export settles
OracleSettled(call, ok) ==
  [call EXCEPT !.oracle[Len(call.oracle)][2] = IF ok THEN "ok" ELSE "failed"]

OracleCalled(call, name) ==
  [call EXCEPT !.oracle = Append(@, <<name, "pending">>)]

\* renderRoundedImageBlob settles with blob: what each raster operation does next
AfterRender(call, blob) ==
  LET done == [call EXCEPT !.rendered = [blob |-> blob, width |-> call.prep.width,
                                         height |-> call.prep.height]]
  IN  CASE call.op = "copyImageToClipboard" ->
             [done EXCEPT !.pc = "clipboardWrite", !.clipboard = "pending"]
        [] call.op = "getPngElement" -> [done EXCEPT !.pc = "reader"]
        [] OTHER -> [done EXCEPT !.pc = "anchor"]

\* faulty variant: the rejection of the corner stage is not caught
CornerFailsUncaught(call, kind) ==
  Fail([call EXCEPT !.cornerFailure = kind], "corner")

\* paintBlobWithRoundedCorners rejects: the catch of renderRoundedImageBlob
\* logs and returns the base blob
CornerFails(call, kind) ==
  AfterRender(Log([call EXCEPT !.cornerFailure = kind],
                  "Failed to apply rounded corners, falling back to original image."),
              "base")

\* a string result is ready: the string operations resolve with it, the
\* element operations with its data URL, the downloads go on to the anchor
StringReady(call, text) ==
  IF call.op \in DownloadOps THEN [call EXCEPT !.pc = "anchor", !.value = text]
  ELSE IF call.op \in {"getSvgString", "getLegacySvgString"} THEN Resolve(call, text)
  ELSE Resolve(call, "dataUrl")

\* the synchronous part of renderRoundedImageBlob; preparation is what
\* getExportPreparation returns for the call
StartRender(call, preparation) ==
  IF IsNullElement(call.element) THEN Fail(call, "TypeError")
  ELSE OracleCalled([call EXCEPT !.pc = "toBlob", !.prep = preparation,
                                 !.oracleOptions = preparation.options],
                    "toBlob")

\* the synchronous part of getJpgElement and downloadJpgElement; formatted is
\* what getFormattedJpegOptions does for the call
StartJpg(call, formatted) ==
  IF formatted[1] = "throw"
  THEN IF call.op = "downloadJpgElement"
       THEN [call EXCEPT !.ret = "threw", !.pc = "done", !.promise = "none"]
       ELSE Fail(call, "TypeError")
  ELSE OracleCalled([call EXCEPT !.pc = "toJpeg", !.oracleOptions = formatted[2]], "toJpeg")

\* the synchronous part of the SVG operations; svgOk: elementToSVG returns
\* svgDocument rather than throwing
StartSvg(call, preparation, svgOk, svgDocument) ==
  IF IsNullElement(call.element) THEN Fail(call, "TypeError")
  ELSE LET asked == OracleSettled(OracleCalled([call EXCEPT !.prep = preparation],
                                               "elementToSVG"), svgOk)
       IN  IF ~ svgOk THEN Fail(asked, "oracle")
           ELSE IF call.op \in LegacyOps
             THEN StringReady([asked EXCEPT !.svg = getLegacySvgString(svgDocument, preparation)],
                              "legacySvg")
           ELSE OracleCalled([asked EXCEPT !.pc = "inline", !.svg = svgDocument],
                             "inlineResources")

\* faulty variant: the capability flag is not consulted
StartCopyUnchecked(call, preparation, supported) == StartRender(call, preparation)

\* the synchronous part of copyImageToClipboard
StartCopy(call, preparation, supported) ==
  IF ~ supported
  THEN Resolve(Log(call, "Clipboard.write is not supported in this browser"), "undefined")
  ELSE StartRender(call, preparation)

\* the synchronous part of the call, by operation
Begin(call, preparation, supported, svgOk, svgDocument) ==
  IF call.op = "copyImageToClipboard" THEN StartCopy(call, preparation, supported)
  ELSE IF call.op \in RasterOps THEN StartRender(call, preparation)
  ELSE IF call.op \in JpgOps
    THEN StartJpg(call, getFormattedJpegOptions(call.element, call.options, call.borderRadius))
  ELSE StartSvg(call, preparation, svgOk, svgDocument)

Start(c, op, element, options, svgOk, svgDocument) ==
  /\ calls[c].op = "idle"
  /\ \A earlier \in 1..(c - 1) : calls[earlier].op # "idle"
  /\ op \in SvgOps \cup LegacyOps \/ svgOk
  /\ calls' = [calls EXCEPT ![c] =
       Begin([IdleCall EXCEPT !.op = op, !.element = element, !.options = options,
                              !.ret = "returned",
                              !.promise = IF op \in DownloadOps THEN "none" ELSE "pending"],
             getExportPreparation(element, options,
                                  IF op \in LegacyOps THEN EmptyText
                                  ELSE IdleCall.borderRadius),
             clipboardSupported, svgOk, svgDocument)]
  /\ UNCHANGED <<pureVars, clipboardSupported, clipPathIdCounter>>

\* domtoimage.toBlob settles
ToBlobSettles(c, ok) ==
  /\ calls[c].pc = "toBlob"
  /\ LET call == OracleSettled(calls[c], ok)
     IN  calls' = [calls EXCEPT ![c] =
           IF ok THEN [call EXCEPT !.pc = "image", !.decodeUrl = "live"]
           ELSE Fail(call, "oracle")]
  /\ UNCHANGED <<pureVars, clipboardSupported, clipPathIdCounter>>

\* the decode image fires error
ImageError(c) ==
  /\ calls[c].pc = "image"
  /\ calls' = [calls EXCEPT ![c] = CornerFails([calls[c] EXCEPT !.decodeUrl = "revoked"],
                                               "decode")]
  /\ UNCHANGED <<pureVars, clipboardSupported, clipPathIdCounter>>

\* the decode image fires load; handler: the 2D context is missing, a canvas
\* call throws, or the handler runs to canvas.toBlob
ImageLoad(c, handler) ==
  /\ calls[c].pc = "image"
  /\ calls' = [calls EXCEPT ![c] =
       CASE handler = "noContext" ->
              CornerFails([calls[c] EXCEPT !.decodeUrl = "revoked"], "context")
         [] handler = "throws" ->
              [calls[c] EXCEPT !.pc = "uncaught", !.cornerFailure = "throw"]
         [] OTHER -> [calls[c] EXCEPT !.pc = "encode"]]
  /\ UNCHANGED <<pureVars, clipboardSupported, clipPathIdCounter>>

\* the callback of canvas.toBlob runs with a blob, or with null
EncodeCallback(c, hasBlob) ==
  /\ calls[c].pc = "encode"
  /\ LET call == [calls[c] EXCEPT !.decodeUrl = "revoked"]
     IN  calls' = [calls EXCEPT ![c] =
           IF hasBlob THEN AfterRender(call, "rounded") ELSE CornerFails(call, "encode")]
  /\ UNCHANGED <<pureVars, clipboardSupported, clipPathIdCounter>>

\* the FileReader of blobToDataURL ends: with a string, without, or in error
ReaderEnds(c, result) ==
  /\ calls[c].pc = "reader"
  /\ calls' = [calls EXCEPT ![c] =
       IF result = "string" THEN Resolve(calls[c], "dataUrl") ELSE Fail(calls[c], result)]
  /\ UNCHANGED <<pureVars, clipboardSupported, clipPathIdCounter>>

\* navigator.clipboard.write settles
ClipboardWriteSettles(c, ok) ==
  /\ calls[c].pc = "clipboardWrite"
  /\ calls' = [calls EXCEPT ![c] =
       IF ok THEN Resolve([calls[c] EXCEPT !.clipboard = "written"], "undefined")
       ELSE Fail([calls[c] EXCEPT !.clipboard = "failed"], "clipboard")]
  /\ UNCHANGED <<pureVars, clipboardSupported, clipPathIdCounter>>

\* the then-callback of a download: the anchor is built and clicked, or a DOM
\* call in it throws
Anchor(c, ok) ==
  /\ calls[c].pc = "anchor"
  /\ calls' = [calls EXCEPT ![c] =
       IF ~ ok THEN Fail(calls[c], "anchor")
       ELSE IF calls[c].op = "downloadPngElement"
         THEN [calls[c] EXCEPT !.pc = "raf", !.anchorUrl = "live", !.clicked = TRUE]
       ELSE [calls[c] EXCEPT !.pc = "done", !.clicked = TRUE]]
  /\ UNCHANGED <<pureVars, clipboardSupported, clipPathIdCounter>>

\* the animation frame requested after the click
AnimationFrame(c) ==
  /\ calls[c].pc = "raf"
  /\ calls' = [calls EXCEPT ![c] = [calls[c] EXCEPT !.pc = "done", !.anchorUrl = "revoked"]]
  /\ UNCHANGED <<pureVars, clipboardSupported, clipPathIdCounter>>

\* domtoimage.toJpeg settles
ToJpegSettles(c, ok) ==
  /\ calls[c].pc = "toJpeg"
  /\ LET call == OracleSettled(calls[c], ok)
     IN  calls' = [calls EXCEPT ![c] =
           IF ok THEN StringReady(call, "dataUrl") ELSE Fail(call, "oracle")]
  /\ UNCHANGED <<pureVars, clipboardSupported, clipPathIdCounter>>

\* the number of the clip-path id applySvgOptions put into the document: the id
\* of the last clipPath of its defs, 0 when it has none
GeneratedId(svgElement) ==
  LET found == FindDefs(svgElement.children)
      clipPaths == IF found = 0 THEN <<>>
                   ELSE SelectSeq(svgElement.children[found].children,
                                  LAMBDA node : node.tag = "clipPath")
  IN  IF Len(clipPaths) = 0 THEN 0 ELSE clipPaths[Len(clipPaths)].id

\* inlineResources settles; on success applySvgOptions and the serializer run
InlineSettles(c, ok) ==
  /\ calls[c].pc = "inline"
  /\ LET call == OracleSettled(calls[c], ok)
         applied == applySvgOptions(call.svg, call.prep, clipPathIdCounter)
     IN  /\ calls' = [calls EXCEPT ![c] =
              IF ok
              THEN StringReady([call EXCEPT !.svg = applied.svgElement,
                                            !.clipPathId = GeneratedId(applied.svgElement)],
                               "svg")
              ELSE Fail(call, "oracle")]
         /\ clipPathIdCounter' = IF ok THEN applied.counter ELSE clipPathIdCounter
  /\ UNCHANGED <<pureVars, clipboardSupported>>

\* a step of call c after its start
Step(c) ==
  \/ \E ok \in BOOLEAN : ToBlobSettles(c, ok)
  \/ ImageError(c)
  \/ \E handler \in {"ok", "noContext", "throws"} : ImageLoad(c, handler)
  \/ \E hasBlob \in BOOLEAN : EncodeCallback(c, hasBlob)
  \/ \E result \in {"string", "nonString", "error"} : ReaderEnds(c, result)
  \/ \E ok \in BOOLEAN : ClipboardWriteSettles(c, ok)
  \/ \E ok \in BOOLEAN : Anchor(c, ok)
  \/ AnimationFrame(c)
  \/ \E ok \in BOOLEAN : ToJpegSettles(c, ok)
  \/ \E ok \in BOOLEAN : InlineSettles(c, ok)

Init ==
  /\ geo = GeoIdle
  /\ prep = PrepIdle
  /\ svgRun = SvgRunIdle
  /\ legacyRun = LegacyIdle
  /\ cssRun = CssIdle
  /\ calls = [c \in CallIds |-> IdleCall]
  /\ clipboardSupported \in BOOLEAN
  /\ clipPathIdCounter = 0

Next ==
  \/ \E c \in CallIds, op \in Ops, element \in ExportElements, options \in ExportOptions,
        svgOk \in BOOLEAN, svgDocument \in ExportDocuments :
          Start(c, op, element, options, svgOk, svgDocument)
  \/ \E c \in CallIds : Step(c)

Spec == Init /\ [][Next]_vars

\* SVG exports in flight together, sharing the clip-path id counter
MaxSvgCalls == 2
FlatElement == ElementOf(300, 300, Px(0), Px(0))
SvgElements == {TheElement, FlatElement}

SvgInit ==
  /\ geo = GeoIdle
  /\ prep = PrepIdle
  /\ svgRun = SvgRunIdle
  /\ legacyRun = LegacyIdle
  /\ cssRun = CssIdle
  /\ calls = [c \in 1..MaxSvgCalls |-> IdleCall]
  /\ clipboardSupported = TRUE
  /\ clipPathIdCounter = 0

SvgNext ==
  \/ \E c \in DOMAIN calls, op \in {"getSvgString", "getSvgElement"},
        element \in SvgElements, options \in ExportOptions, svgOk \in BOOLEAN,
        svgDocument \in ExportDocuments :
          Start(c, op, element, options, svgOk, svgDocument)
  \/ \E c \in DOMAIN calls, ok \in BOOLEAN : InlineSettles(c, ok)

SvgSpec == SvgInit /\ [][SvgNext]_vars

\* every pending oracle call settles and every pending browser callback fires
FairSpec == Spec /\ \A c \in CallIds : WF_vars(Step(c))

(***************************************************************************)
(* Failure handling of the exports: C1, C2, C3, C4                         *)
(***************************************************************************)

CornerFailures == {"decode", "context", "encode"}

\* C1: once the oracle has returned the base blob, a failure of the corner
\* stage (the image fails to decode, no 2D context, the encoder yields no
\* blob) does not fail the export: the render resolves with the unrounded base
\* blob and the preparation's width and height.
C1_FallbackToBaseBlob ==
  \A c \in CallIds :
    calls[c].cornerFailure \in CornerFailures =>
      /\ calls[c].oracle = << <<"toBlob", "ok">> >>
      /\ calls[c].rendered = [blob |-> "base", width |-> calls[c].prep.width,
                              height |-> calls[c].prep.height]
      /\ ~ (calls[c].promise = "rejected" /\ calls[c].value = "corner")
      /\ calls[c].op = "getPngElement" /\ calls[c].promise = "resolved"
           => calls[c].value = "dataUrl"

C1_Witness ==
  \E c \in CallIds :
    /\ calls[c].cornerFailure = "encode"
    /\ calls[c].op = "getPngElement"
    /\ calls[c].promise = "resolved"
    /\ calls[c].rendered.blob = "base"
    /\ calls[c].rendered.width = Num(150)

OracleFailed(call) == \E i \in 1..Len(call.oracle) : call.oracle[i][2] = "failed"

\* no oracle call follows a failed one, and no oracle function is called twice
NotRetried(call) ==
  /\ \A i \in 1..Len(call.oracle) : call.oracle[i][2] = "failed" => i = Len(call.oracle)
  /\ \A i, j \in 1..Len(call.oracle) : i # j => call.oracle[i][1] # call.oracle[j][1]

\* C2, as stated: when the oracle call of a promise-returning export rejects,
\* the promise returned to the caller rejects and the oracle is not called
\* again.
C2_OracleFailureRejects ==
  \A c \in CallIds :
    calls[c].op \in PromiseOps /\ OracleFailed(calls[c]) =>
      calls[c].promise = "rejected" /\ NotRetried(calls[c])

\* C2, amended: when the oracle call rejects, getPngElement, getJpgElement,
\* getSvgString, getSvgElement, getLegacySvgString and getLegacySvgElement
\* reject with the oracle's error; copyImageToClipboard logs it and resolves;
\* in every export the oracle is not called again.
C2_OracleFailureRejectsExceptCopy ==
  \A c \in CallIds :
    OracleFailed(calls[c]) =>
      /\ NotRetried(calls[c])
      /\ calls[c].op \in PromiseOps \ {"copyImageToClipboard"} =>
           calls[c].promise = "rejected" /\ calls[c].value = "oracle"
      /\ calls[c].op = "copyImageToClipboard" =>
           /\ calls[c].promise = "resolved"
           /\ calls[c].logged = <<"Error copying image to clipboard:">>

C2_Witness ==
  \E c \in CallIds :
    /\ calls[c].op = "getSvgString"
    /\ calls[c].oracle = << <<"elementToSVG", "ok">>, <<"inlineResources", "failed">> >>
    /\ calls[c].promise = "rejected"

\* C3: no download operation throws to its caller, whichever step fails.
C3_DownloadsNeverThrow ==
  \A c \in CallIds : calls[c].op \in DownloadOps => calls[c].ret # "threw"

\* C4: the promise of every export that was started eventually settles
\* (resolves or rejects), given that every oracle call settles and every
\* browser callback fires, whichever stage fails.
C4_EveryExportSettles ==
  \A c \in CallIds :
    (calls[c].promise = "pending") ~> (calls[c].promise \in {"resolved", "rejected"})

(***************************************************************************)
(* Corner radius clamping: C5, C6, C7                                      *)
(***************************************************************************)

Corners == {"topLeft", "topRight", "bottomRight", "bottomLeft"}

\* the four edges: the two corners on the edge, and whether the width bounds it
Edges ==
  {<<"topLeft", "topRight", TRUE>>, <<"bottomLeft", "bottomRight", TRUE>>,
   <<"topLeft", "bottomLeft", FALSE>>, <<"topRight", "bottomRight", FALSE>>}

MaxOf(x, y) == IF x > y THEN x ELSE y

\* the numerator of a over the denominator D, a multiple of a's own
OnDen(a, D) == a[1] * (D \div a[2])

\* a + b <= dim * (1 + k / 2^MantBits), computed exactly on integers
EdgeWithin(a, b, dim, k) ==
  LET D == MaxOf(MaxOf(a[2], b[2]), dim[2])
  IN  OnDen(a, D) + OnDen(b, D) - OnDen(dim, D) <= (k * OnDen(dim, D)) \div Full

SumsWithin(c, width, height, k) ==
  \A e \in Edges : EdgeWithin(c[e[1]], c[e[2]], IF e[3] THEN width ELSE height, k)

\* the box the clip radii of a preparation are clamped against
PreviewWidth(out) == FDiv(out.width, out.scale)
PreviewHeight(out) == FDiv(out.height, out.scale)

AllSumsWithin(k) ==
  /\ geo.phase \in {"once", "twice"} => SumsWithin(geo.once, geo.width, geo.height, k)
  /\ prep.phase = "done" =>
       /\ SumsWithin(prep.out.clipRadii, PreviewWidth(prep.out), PreviewHeight(prep.out), k)
       /\ SumsWithin(prep.out.outputRadii, prep.out.width, prep.out.height, k)

\* C5 as stated: after clamping, the sum of the two radii on every edge is at
\* most the box dimension of that edge, for clampRadiiCss and for the clipRadii
\* and outputRadii of every ExportPreparation.
C5_SumsWithinBox == AllSumsWithin(0)

\* C5 amended: after clamping, the sum of the two radii on every edge exceeds
\* the box dimension of that edge by at most the rounding of the arithmetic:
\* sum <= dimension * (1 + 4 * 2^-p), p the number of significand bits.
C5_SumsWithinBoxUpToRounding == AllSumsWithin(4)

\* C5 witness: a clamp that had to shrink the radii, and a scaled preparation
\* whose clip radii were shrunk
C5_Witness ==
  \/ geo.phase = "once" /\ geo.once # geo.r
  \/ /\ prep.phase = "done"
     /\ ~ SumsWithin(prep.out.radii, prep.out.width, prep.out.height, 0)

Abs(x) == IF x < 0 THEN 0 - x ELSE x

\* x and y differ by at most y * k / 2^MantBits
Near(x, y, k) == Abs(x - y) <= (k * y) \div Full

\* x <= y * (1 + k / 2^MantBits)
AtMost(x, y, k) == x - y <= (k * y) \div Full

\* out_i / out_j = in_i / in_j, up to a relative k / 2^MantBits
RatioWithin(oi, oj, ini, inj, k) ==
  LET D == MaxOf(oi[2], oj[2])
  IN  Near(OnDen(oi, D) * inj[1] * ini[2], OnDen(oj, D) * ini[1] * inj[2], k)

\* the exact sum of the two input radii on edge e, and the box dimension of e
EdgeSum(r, e) == <<r[e[1]][1] * r[e[2]][2] + r[e[2]][1] * r[e[1]][2], r[e[1]][2] * r[e[2]][2]>>
EdgeDim(e, width, height) == IF e[3] THEN width ELSE height

\* out = in * (dim / sum), up to a relative k / 2^MantBits
ScaledBy(out, in, sum, dim, k) ==
  Near(out[1] * sum[1] * in[2] * dim[2], in[1] * dim[1] * out[2] * sum[2], k)

\* out <= in * (dim / sum) * (1 + k / 2^MantBits)
ScaledAtMost(out, in, sum, dim, k) ==
  AtMost(out[1] * sum[1] * in[2] * dim[2], in[1] * dim[1] * out[2] * sum[2], k)

\* the radii r in the box are multiplied by one factor, the least of 1 and of
\* dimension / sum over the edges, to give out; k is the rounding allowed
CommonFactor(r, width, height, out, k) ==
  LET over == {e \in Edges : Gt(EdgeSum(r, e), EdgeDim(e, width, height))}
  IN  /\ \A c \in Corners : Le(Zero, out[c]) /\ Le(out[c], r[c])
      /\ \A i \in Corners : \A j \in Corners : RatioWithin(out[i], out[j], r[i], r[j], k)
      /\ over = {} => out = r
      /\ over # {} =>
           /\ \E e \in over : \A c \in Corners :
                ScaledBy(out[c], r[c], EdgeSum(r, e), EdgeDim(e, width, height), k)
           /\ \A e \in over : \A c \in Corners :
                ScaledAtMost(out[c], r[c], EdgeSum(r, e), EdgeDim(e, width, height), k)
      /\ (r = Radii(Num(48), Num(48), Num(48), Num(48)) /\ width = Num(100) /\ height = Num(40))
           => out = Radii(Num(20), Num(20), Num(20), Num(20))

\* C6 as stated: clampRadiiCss multiplies the four radii by one common factor
\* f = min(1, width/(tl+tr), width/(bl+br), height/(tl+bl), height/(tr+br)):
\* no output is below 0 or above its input, the ratios between the corners are
\* unchanged, radii within all four constraints are returned unchanged, and
\* uniform 48 in a 100x40 box gives 20.
C6_CommonFactor ==
  geo.phase \in {"once", "twice"} => CommonFactor(geo.r, geo.width, geo.height, geo.once, 0)

\* C6 amended: the same, with the products and the ratios between the corners
\* holding up to the rounding of the arithmetic (a relative 4 * 2^-p); the
\* bounds 0 <= output <= input, the unchanged radii and the example are exact.
C6_CommonFactorUpToRounding ==
  geo.phase \in {"once", "twice"} => CommonFactor(geo.r, geo.width, geo.height, geo.once, 4)

\* C6 witness: unequal radii shrunk by a factor below 1
C6_Witness ==
  /\ geo.phase = "once"
  /\ ~ areRadiiEqual(geo.r)
  /\ \A c \in Corners : Gt(geo.r[c], Zero) /\ Lt(geo.once[c], geo.r[c])

\* C7 as stated: clampRadiiCss applied to its own result returns that result.
C7_Idempotent == geo.phase = "twice" => geo.twice = geo.once

\* C7 amended: clampRadiiCss applied to its own result returns it up to the
\* rounding of the arithmetic: no radius grows, none shrinks by more than a
\* relative 8 * 2^-p, and a result that meets the four constraints exactly is
\* returned unchanged.
C7_IdempotentUpToRounding ==
  geo.phase = "twice" =>
    /\ \A c \in Corners :
         /\ Le(geo.twice[c], geo.once[c])
         /\ LET D == MaxOf(geo.twice[c][2], geo.once[c][2])
            IN  Near(OnDen(geo.twice[c], D), OnDen(geo.once[c], D), 8)
    /\ SumsWithin(geo.once, geo.width, geo.height, 0) => geo.twice = geo.once

\* C7 witness: a second application to radii the first one had to shrink
C7_Witness == geo.phase = "twice" /\ geo.once # geo.r

(***************************************************************************)
(* Export preparation: C8, C9, C10                                         *)
(***************************************************************************)

\* both dimensions explicitly requested: positive and finite
BothRequested(options) ==
  /\ parseDimension(Get(options, "width")) # Null
  /\ parseDimension(Get(options, "height")) # Null

Uniform(v) == Radii(Num(v), Num(v), Num(v), Num(v))

ScaledBoth(r, s) ==
  Radii(FMul(r.topLeft, s), FMul(r.topRight, s), FMul(r.bottomRight, s), FMul(r.bottomLeft, s))

DividedBoth(r, s) ==
  Radii(FDiv(r.topLeft, s), FDiv(r.topRight, s), FDiv(r.bottomRight, s), FDiv(r.bottomLeft, s))

\* the scale C8 states for natural size nw x nh and requested size rw x rh
FitScale(nw, nh, rw, rh) ==
  IF nw = Zero \/ nh = Zero THEN One
  ELSE IF Lt(FDiv(rw, nw), FDiv(rh, nh)) THEN FDiv(rw, nw) ELSE FDiv(rh, nh)

\* C8: with both width and height requested, the preparation has the requested
\* width and height, scale = min(rw / naturalWidth, rh / naturalHeight) (1 when
\* a natural dimension is 0), clipRadii = clamp(raw / scale) against
\* (rw / scale, rh / scale) and outputRadii = clamp(raw * scale) against
\* (rw, rh); natural 300x300, requested 150x150, raw 48 give scale 0.5,
\* clipRadii 96 and outputRadii 24.
C8_ScaledPreparation ==
  (prep.phase = "done" /\ BothRequested(prep.options)) =>
    LET rw == prep.options.width
        rh == prep.options.height
        el == prep.element
        out == prep.out
        raw == getCornerRadii(el, prep.borderRadius)
        scale == FitScale(el.offsetWidth, el.offsetHeight, rw, rh)
    IN  /\ out.width = rw /\ out.height = rh
        /\ out.scale = scale
        /\ out.radii = raw
        /\ out.clipRadii = clampRadiiCss(DividedBoth(raw, scale), FDiv(rw, scale), FDiv(rh, scale))
        /\ out.outputRadii = clampRadiiCss(ScaledBoth(raw, scale), rw, rh)
        /\ (el.offsetWidth = Num(300) /\ el.offsetHeight = Num(300) /\ rw = Num(150)
              /\ rh = Num(150) /\ raw = Uniform(48))
             => out.scale = <<1, 2>> /\ out.clipRadii = Uniform(96) /\ out.outputRadii = Uniform(24)

\* C8 witness: the 300x300 element exported at 150x150 with radius 48
C8_Witness ==
  /\ prep.phase = "done"
  /\ BothRequested(prep.options)
  /\ prep.element.offsetWidth = Num(300) /\ prep.element.offsetHeight = Num(300)
  /\ prep.options.width = Num(150) /\ prep.options.height = Num(150)
  /\ prep.out.radii = Uniform(48)
  /\ prep.out.clipRadii = Uniform(96)

\* C9: the options a preparation hands to the rasterization oracle always have
\* quality = 100, whatever quality the caller's options carry.
C9_QualityAlways100 ==
  prep.phase = "done" => prep.out.options.quality = Num(100)

\* the keys of the style that hold computed geometry on the path taken
ComputedKeys(options) ==
  IF BothRequested(options) THEN GeometricKeys \cup ScaledKeys ELSE GeometricKeys

\* the style of a finished preparation merges computed geometry over the
\* caller's style
StyleMerged ==
  prep.phase = "done" =>
    LET out == prep.out
        style == out.options.style
        caller == CallerStyle(prep.options)
        clip == out.clipRadii
        corners == <<formatRadiusValue(clip.topLeft), formatRadiusValue(clip.topRight),
                     formatRadiusValue(clip.bottomRight), formatRadiusValue(clip.bottomLeft)>>
    IN  /\ DOMAIN style = DOMAIN caller \cup ComputedKeys(prep.options)
        /\ style.overflow = Text("hidden")
        /\ style.borderTopLeftRadius = corners[1]
        /\ style.borderTopRightRadius = corners[2]
        /\ style.borderBottomRightRadius = corners[3]
        /\ style.borderBottomLeftRadius = corners[4]
        /\ style.borderRadius = IF \A i \in 1..4 : corners[i] = corners[1]
                                  THEN corners[1] ELSE JoinPx(corners)
        /\ style.clipPath = buildClipPathValue(clip)
        /\ style.webkitClipPath = buildClipPathValue(clip)
        /\ BothRequested(prep.options) =>
             /\ style.transform = <<"scale", <<out.scale>> >>
             /\ style.transformOrigin = Text("left top")
        /\ \A k \in DOMAIN caller \ ComputedKeys(prep.options) : style[k] = caller[k]

\* getExportPreparation leaves the objects it was called with as they were
CallerObjectsKept ==
  prep.phase = "input" =>
    /\ prep'.options = prep.options
    /\ prep'.element = prep.element
    /\ prep'.borderRadius = prep.borderRadius

\* C10: in the style of every preparation the geometric keys hold the computed
\* values even when the caller's style has the same keys, every other key of
\* the caller's style keeps the caller's value, and the caller's options and
\* style are left as they were.
C10_StyleMerge == [] StyleMerged /\ [][CallerObjectsKept]_vars

\* C10 witness: a scaled preparation whose caller style names the geometric
\* keys and a key of its own
C10_Witness ==
  /\ prep.phase = "done"
  /\ BothRequested(prep.options)
  /\ (GeometricKeys \cup ScaledKeys \cup {"color"}) \subseteq DOMAIN CallerStyle(prep.options)
  /\ prep.out.options.style.color = Text("caller")
  /\ prep.out.options.style.overflow = Text("hidden")

(***************************************************************************)
(* Clip injection into the SVG document: C11, C12                          *)
(***************************************************************************)

AllZero(clipRadii) ==
  /\ clipRadii.topLeft = Zero
  /\ clipRadii.topRight = Zero
  /\ clipRadii.bottomRight = Zero
  /\ clipRadii.bottomLeft = Zero

\* the nodes of the sequence with the given tag
WithTag(nodes, tag) == SelectSeq(nodes, LAMBDA n : n.tag = tag)
NotDefs(nodes) == SelectSeq(nodes, LAMBDA n : n.tag # "defs")

\* the nodes of the root's subtree that are clipPath elements or carry a clip-path
RECURSIVE ClipConstructs(_)
ClipConstructs(nodes) ==
  IF Len(nodes) = 0 THEN 0
  ELSE (IF Head(nodes).tag = "clipPath" \/ Head(nodes).clipPath # 0 THEN 1 ELSE 0)
       + ClipConstructs(Head(nodes).children) + ClipConstructs(Tail(nodes))

\* C11: when all four clip radii are 0, applySvgOptions adds no clipPath element
\* and no group with a clip-path, leaves the root without a clip-path
\* attribute and with its children unchanged, and does not advance the counter.
C11_NoClipWhenFlat ==
  svgRun.phase = "done" /\ AllZero(svgRun.preparation.clipRadii) =>
    /\ ClipConstructs(svgRun.out.svgElement.children) = 0
    /\ svgRun.out.svgElement.clipPath = 0
    /\ svgRun.out.svgElement.children = svgRun.svgElement.children
    /\ svgRun.out.counter = svgRun.counter

C11_Witness ==
  /\ svgRun.phase = "done"
  /\ AllZero(svgRun.preparation.clipRadii)
  /\ svgRun.svgElement.clipPath = -1
  /\ Len(svgRun.svgElement.children) = 2
  /\ svgRun.counter = 2
  /\ svgRun.out.svgElement.clipPath = 0

\* the root has a child that is not a defs element
HasContent(svgElement) == Len(NotDefs(svgElement.children)) > 0

\* C12: when some clip radius is positive and the root has content, exactly
\* one clipPath with a fresh id is added to a defs block, every child of the
\* root that is not a defs element is moved, in its order, into one new group
\* whose clip-path references that id, no original node is dropped or
\* duplicated, and the root's children are afterwards the defs and that group.
C12_ContentWrappedOnce ==
  svgRun.phase = "done" /\ hasRoundedCorner(svgRun.preparation.clipRadii)
    /\ HasContent(svgRun.svgElement) =>
    LET before == svgRun.svgElement.children
        after == svgRun.out.svgElement.children
        id == svgRun.counter + 1
    IN  /\ svgRun.out.counter = id
        /\ Len(after) = 2
        /\ after[1].tag = "defs"
        /\ after[2].tag = "g" /\ after[2].node = 0 /\ after[2].clipPath = id
        /\ WithTag(after[1].children, "clipPath")
             = << [SvgNode("clipPath", 0, <<SvgNode("path", 0, <<>>)>>) EXCEPT !.id = id] >>
        /\ ClipConstructs(after) = 2
        /\ NotDefs(after[2].children) = NotDefs(before)
        /\ IF after[1].node = 0
           THEN after[2].children = before
           ELSE /\ before[after[1].node] = [after[1] EXCEPT !.children = <<>>]
                /\ after[2].children = Without(before, after[1].node)

C12_Witness ==
  /\ svgRun.phase = "done"
  /\ hasRoundedCorner(svgRun.preparation.clipRadii)
  /\ Len(svgRun.svgElement.children) = 3
  /\ svgRun.svgElement.children[1].tag = "rect"
  /\ svgRun.svgElement.children[2].tag = "defs"
  /\ svgRun.svgElement.children[3].tag = "#text"
  /\ svgRun.counter = 2
  /\ svgRun.out.svgElement.children[1].node = 2
  /\ Len(svgRun.out.svgElement.children[2].children) = 2
  /\ svgRun.out.svgElement.children[2].clipPath = 3

(***************************************************************************)
(* The shared clip-path id counter: C16                                    *)
(***************************************************************************)

\* the calls that were given a clip-path id
WithClipPathId(cs) == {c \in DOMAIN cs : cs[c].clipPathId # 0}

IdsDistinct ==
  /\ \A c, d \in WithClipPathId(calls) : c # d => calls[c].clipPathId # calls[d].clipPathId
  /\ \A c \in WithClipPathId(calls) : calls[c].clipPathId \in 1..clipPathIdCounter
  /\ clipPathIdCounter = Cardinality(WithClipPathId(calls))

CounterAdvances ==
  /\ clipPathIdCounter' =
       clipPathIdCounter + Cardinality(WithClipPathId(calls') \ WithClipPathId(calls))
  /\ clipPathIdCounter' \in {clipPathIdCounter, clipPathIdCounter + 1}
  /\ \A c \in WithClipPathId(calls) : calls'[c].clipPathId = calls[c].clipPathId

\* C16: with SVG exports interleaved at their suspension points, the generated
\* clip-path ids are pairwise distinct, and the shared counter only increases,
\* by exactly 1 per generated id, and is never reset.
C16_ClipPathIdsDistinct == [] IdsDistinct /\ [][CounterAdvances]_vars

C16_Witness ==
  /\ calls[1].clipPathId = 2
  /\ calls[2].clipPathId = 1
  /\ clipPathIdCounter = 2

(***************************************************************************)
(* The legacy passes: C13, C14, C15, C20                                   *)
(***************************************************************************)

RecognizedTags ==
  {"rect", "circle", "ellipse", "line", "polyline", "polygon", "text", "tspan"}

\* every element below nodes, each with its chain: its ancestors from the root
\* down and, last, the element itself
RECURSIVE Located(_, _)
Located(nodes, ancestors) ==
  IF Len(nodes) = 0 THEN {}
  ELSE LET chain == Append(ancestors, Head(nodes))
       IN  (IF IsElement(Head(nodes))
            THEN {[element |-> Head(nodes), chain |-> chain]}
                   \cup Located(Head(nodes).children, chain)
            ELSE {})
           \cup Located(Tail(nodes), ancestors)

ElementsOf(svgElement) == Located(<<svgElement>>, <<>>)
NodeOf(svgElement, node) ==
  (CHOOSE l \in ElementsOf(svgElement) : l.element.node = node).element

\* the sum of the translations of the elements of a chain
RECURSIVE ChainTx(_)
ChainTx(chain) ==
  IF Len(chain) = 0 THEN 0
  ELSE extractTranslation(Head(chain).transform).tx + ChainTx(Tail(chain))
RECURSIVE ChainTy(_)
ChainTy(chain) ==
  IF Len(chain) = 0 THEN 0
  ELSE extractTranslation(Head(chain).transform).ty + ChainTy(Tail(chain))

\* the recognized shapes of a document, and the extents of all of them
Shapes(svgElement) ==
  {l \in ElementsOf(svgElement) :
     /\ l.element.tag \in RecognizedTags
     /\ l.element.tag \in {"polyline", "polygon"} => Len(l.element.points) > 0}
Extents(svgElement) ==
  UNION {ElementBounds(l.element, ChainTx(l.chain), ChainTy(l.chain)) : l \in Shapes(svgElement)}
BoxMinX(svgElement) == MinInt({p[1] : p \in Extents(svgElement)})
BoxMinY(svgElement) == MinInt({p[2] : p \in Extents(svgElement)})
BoxSpanX(svgElement) ==
  LET span == MaxInt({p[1] : p \in Extents(svgElement)}) - BoxMinX(svgElement)
  IN  IF span > Unit THEN span ELSE Unit
BoxSpanY(svgElement) ==
  LET span == MaxInt({p[2] : p \in Extents(svgElement)}) - BoxMinY(svgElement)
  IN  IF span > Unit THEN span ELSE Unit

\* C13: in the markup getLegacySvgString returns, when the document has a
\* recognized shape, the root viewBox is "0 0 W H" with W and H the spans
\* (minimum 1) of the bounding box of all recognized shapes' absolute
\* coordinates, whatever the requested output size.
C13_ViewBoxIsBoundingBox ==
  legacyRun.phase = "done" /\ Shapes(legacyRun.stripped) # {} =>
    legacyRun.out.viewBox = <<0, 0, formatSvgNumber(BoxSpanX(legacyRun.stripped)),
                              formatSvgNumber(BoxSpanY(legacyRun.stripped))>>

\* the position attributes of a shape, x then y, in the order written
Position(element) ==
  CASE element.tag \in {"rect", "text", "tspan"} -> <<Attr(element, "x"), Attr(element, "y")>>
    [] element.tag \in {"circle", "ellipse"} -> <<Attr(element, "cx"), Attr(element, "cy")>>
    [] element.tag = "line" -> <<Attr(element, "x1"), Attr(element, "y1"),
                                 Attr(element, "x2"), Attr(element, "y2")>>
    [] OTHER -> [i \in 1..(2 * Len(element.points)) |->
                   element.points[(i + 1) \div 2][2 - (i % 2)]]

\* the absolute positions of a located shape, minus the bounding-box minimum
Rehomed(l, svgElement) ==
  [i \in DOMAIN Position(l.element) |->
     IF i % 2 = 1 THEN Position(l.element)[i] + ChainTx(l.chain) - BoxMinX(svgElement)
     ELSE Position(l.element)[i] + ChainTy(l.chain) - BoxMinY(svgElement)]

Rounded(positions) == [i \in DOMAIN positions |-> formatSvgNumber(positions[i])]

Normalized == legacyRun.phase \in {"normalized", "done"}

\* C14, as stated: the absolute position of every recognized shape is its raw
\* coordinate plus the translations of itself and all its ancestors, and the
\* written position is that value minus the bounding-box minimum.
C14_WrittenPositions ==
  Normalized =>
    \A l \in Shapes(legacyRun.stripped) :
      Position(NodeOf(legacyRun.normalized, l.element.node)) = Rehomed(l, legacyRun.stripped)

\* C14, amended: the written position is that value minus the bounding-box
\* minimum, rounded to three decimals.
C14_WrittenPositionsRounded ==
  Normalized =>
    \A l \in Shapes(legacyRun.stripped) :
      Position(NodeOf(legacyRun.normalized, l.element.node))
        = Rounded(Rehomed(l, legacyRun.stripped))

\* a rect at 10,10 alone in a group translate(5,5) is written at 0,0
C14_Witness ==
  /\ Normalized
  /\ legacyRun.svgElement.children
       = <<Group(1, <<Translate(5, 5)>>,
                 <<Shape("rect", 2, [x |-> 10 * Unit, y |-> 10 * Unit,
                                     width |-> 20 * Unit, height |-> 20 * Unit])>>)>>
  /\ BoxMinX(legacyRun.stripped) = 15 * Unit
  /\ BoxMinY(legacyRun.stripped) = 15 * Unit
  /\ Position(NodeOf(legacyRun.normalized, 2)) = <<0, 0>>

\* the elements of a chain that declare the variable, by index
Declarers(chain, name) ==
  {i \in 1..Len(chain) : \E k \in 1..Len(chain[i].style) : chain[i].style[k][1] = name}
\* the value the style declares for the variable (its last declaration)
Declared(style, name) ==
  style[MaxInt({k \in 1..Len(style) : style[k][1] = name})][2]

UsesFallback(element) ==
  /\ \E k \in 1..Len(element.style) : element.style[k] = <<"fill", Var("--c", "red")>>
  /\ "fill" \notin DOMAIN element.present

\* C15: fill:var(--c, red) becomes the attribute fill="red" when no element of
\* the ancestor chain declares --c, and the value declared by the nearest
\* declaring element of the chain (the element itself included) otherwise;
\* a declaration in another subtree is never used.
C15_VariablesScoped ==
  legacyRun.phase # "input" /\ legacyRun.phase # "idle" =>
    \A l \in ElementsOf([legacyRun.svgElement EXCEPT !.children = RemoveDisallowed(@)]) :
      UsesFallback(l.element) =>
        LET after == NodeOf(legacyRun.stripped, l.element.node)
            declarers == Declarers(l.chain, "--c")
        IN  /\ "fill" \in DOMAIN after.present
            /\ after.style = <<>>
            /\ IF declarers = {} THEN after.present.fill = Lit("red")
               ELSE LET value == Declared(l.chain[MaxInt(declarers)].style, "--c")
                    IN  ~ IncludesVar(value) => after.present.fill = value

\* the circle's fill falls back to red although the sibling group declares --c,
\* and the rect's own declaration shadows its parent's
C15_Witness ==
  /\ legacyRun.phase = "stripped"
  /\ legacyRun.svgElement.style = <<>>
  /\ legacyRun.svgElement.children[1].style = << <<"--c", Lit("green")>> >>
  /\ legacyRun.svgElement.children[1].children[1].style
       = << <<"--c", Lit("pink")>>, <<"fill", Var("--c", "red")>> >>
  /\ NodeOf(legacyRun.stripped, 2).present.fill = Lit("pink")
  /\ NodeOf(legacyRun.stripped, 4).present.fill = Lit("red")

\* the whole transform is one translate, or one matrix with the identity as
\* its linear part
IsPureTranslation(transformValue) ==
  /\ Len(transformValue) = 1
  /\ \/ transformValue[1].fn = "translate"
     \/ /\ transformValue[1].fn = "matrix"
        /\ Len(transformValue[1].args) = 6
        /\ AbsInt(transformValue[1].args[1] - MatrixOne) < 10
        /\ AbsInt(transformValue[1].args[4] - MatrixOne) < 10
        /\ AbsInt(transformValue[1].args[2]) < 10
        /\ AbsInt(transformValue[1].args[3]) < 10

\* C20: a transform attribute is removed only when the whole transform is a
\* pure translation, whose (tx, ty) is then added to the offset; a transform
\* with any other component is left unchanged and adds no offset.
C20_OnlyPureTranslationsConsumed ==
  Normalized =>
    \A l \in ElementsOf(legacyRun.stripped) :
      LET before == l.element.transform
          after == NodeOf(legacyRun.normalized, l.element.node).transform
          t == extractTranslation(before)
      IN  Len(before) > 0 =>
            IF IsPureTranslation(before)
            THEN after = <<>> /\ t.consumed
            ELSE after = before /\ t.tx = 0 /\ t.ty = 0

(***************************************************************************)
(* Resources, the clipboard capability and the JPG options: C17, C18, C19  *)
(***************************************************************************)

\* C17: every object URL created during a raster export is revoked on every
\* exit path: the URL made to decode the base blob once the image has fired
\* load or error (success, no context, no re-encoded blob, a failure raised in
\* the load handler), the URL of the download anchor after the click and
\* never before it.
C17_ObjectUrlsRevoked ==
  \A c \in CallIds :
    /\ (calls[c].decodeUrl = "live") ~> (calls[c].decodeUrl = "revoked")
    /\ (calls[c].anchorUrl = "live") ~> (calls[c].anchorUrl = "revoked")
    /\ [](calls[c].anchorUrl # "none" => calls[c].clicked)

C19_JpgStyleInjected ==
  \A c \in CallIds :
    LET call == calls[c]
        s == OrElse(getResizeScaleToFit(call.element, call.options.width, call.options.height),
                    One)
    IN  /\ call.op \in JpgOps
        /\ call.oracle # <<>>
        /\ Truthy(Get(call.options, "width")) /\ Truthy(Get(call.options, "height"))
        => /\ "style" \in DOMAIN call.oracleOptions
           /\ call.oracleOptions.style
                = [transform |-> <<"scale", <<s>> >>,
                   transformOrigin |-> Text("left top"),
                   borderRadius |-> <<"px", <<FDiv(Num(DEFAULT_RADIUS), s)>> >>,
                   overflow |-> Text("hidden")]
           /\ call.decodeUrl = "none"

(***************************************************************************)
(* Postconditions of the legacy passes: C21, C22                           *)
(***************************************************************************)

NodesOf(svgElement) == {l.element.node : l \in ElementsOf(svgElement)}

\* the elements of the document getLegacySvgString was given that are of a
\* disallowed tag, or below one
Disallowed(svgElement) ==
  {l \in ElementsOf(svgElement) : \E i \in 1..Len(l.chain) : l.chain[i].tag \in disallowedTags}

\* C21: after getLegacySvgString the document has no element of a disallowed
\* tag (defs, style, mask, clipPath, filter, foreignObject, image, symbol,
\* use) and nothing of their subtrees, and no remaining element, the root
\* included, carries a clip-path, mask or filter attribute or a non-empty
\* style attribute.
C21_LegacyDocumentStripped ==
  legacyRun.phase = "done" =>
    /\ \A l \in ElementsOf(legacyRun.out) :
         /\ l.element.tag \notin disallowedTags
         /\ l.element.clipPath = 0 /\ l.element.mask = 0 /\ l.element.filter = 0
         /\ l.element.style = <<>>
    /\ \A l \in Disallowed(legacyRun.svgElement) :
         l.element.node \notin NodesOf(legacyRun.out)
    /\ \A l \in ElementsOf(legacyRun.svgElement) \ Disallowed(legacyRun.svgElement) :
         l.element.node \in NodesOf(legacyRun.out)

\* a document with a defs subtree, a nested use, the three attributes and
\* style attributes on the root, a group and a shape has lost all of them
C21_Witness ==
  /\ legacyRun.phase = "done"
  /\ legacyRun.svgElement.clipPath # 0
  /\ legacyRun.svgElement.style # <<>>
  /\ NodeOf(legacyRun.svgElement, 1).mask # 0
  /\ NodeOf(legacyRun.svgElement, 1).style # <<>>
  /\ NodeOf(legacyRun.svgElement, 4).filter # 0
  /\ {5, 6, 7} \subseteq NodesOf(legacyRun.svgElement)
  /\ NodesOf(legacyRun.out) = {0, 1, 2, 3, 4}

\* half a unit of the third decimal, the most formatSvgNumber moves a value
HalfMilli == Unit \div 2000

\* the position attributes written on the recognized shapes of the document
WrittenPositions(svgElement) ==
  UNION {{Position(l.element)[i] : i \in DOMAIN Position(l.element)} : l \in Shapes(svgElement)}

\* C22, as stated: after normalizeLegacyCoordinates on a document with a
\* recognized shape, every position attribute written on a recognized shape is
\* >= 0, whatever the source coordinates and translations, and on each axis
\* the smallest extent of the shapes is exactly 0.
C22_NonNegativeTightFrame ==
  Normalized /\ Shapes(legacyRun.stripped) # {} =>
    /\ \A position \in WrittenPositions(legacyRun.normalized) : position >= 0
    /\ BoxMinX(legacyRun.normalized) = 0
    /\ BoxMinY(legacyRun.normalized) = 0

\* C22, amended: every written position attribute is >= 0, and on each axis
\* the smallest extent of the shapes is 0 up to the rounding of the written
\* positions to three decimals (at most 0.0005 either way).
C22_NonNegativeFrameTightUpToRounding ==
  Normalized /\ Shapes(legacyRun.stripped) # {} =>
    /\ \A position \in WrittenPositions(legacyRun.normalized) : position >= 0
    /\ BoxMinX(legacyRun.normalized) \in (0 - HalfMilli)..HalfMilli
    /\ BoxMinY(legacyRun.normalized) \in (0 - HalfMilli)..HalfMilli

\* shapes left of and above the origin have been moved into the frame
C22_Witness ==
  /\ Normalized
  /\ BoxMinX(legacyRun.stripped) < 0
  /\ BoxMinY(legacyRun.stripped) < 0
  /\ Cardinality(Shapes(legacyRun.stripped)) >= 3
  /\ BoxMinX(legacyRun.normalized) = 0
  /\ BoxMinY(legacyRun.normalized) = 0

(***************************************************************************)
(* Termination of resolveCssVariables: C23                                 *)
(***************************************************************************)

ResolveDone == cssRun.phase = "done"

\* what the finished call returned is what resolveCssVariables evaluates to
ResolvedAsDefined ==
  ResolveDone => cssRun.out = resolveCssVariables(cssRun.value, cssRun.variables, 0)

\* C23, as stated: resolveCssVariables terminates for every value and every
\* variable map, variables that refer to themselves or to each other and
\* unmatched var( texts included, and the recursion never goes deeper than
\* depth 10.
C23_ResolveTerminatesWithinDepth ==
  /\ <> ResolveDone
  /\ [](cssRun.deepest <= MAX_CSS_VAR_DEPTH)

\* C23, amended: it terminates, and the recursion never goes deeper than depth
\* 11: a call at depth 10 still runs the replacement, whose calls at depth 11
\* return their argument at once, so that at most 11 calls wait on the stack.
C23_ResolveTerminatesWithinDepthPlusOne ==
  /\ <> ResolveDone
  /\ [](cssRun.deepest <= MAX_CSS_VAR_DEPTH + 1)
  /\ [](Len(cssRun.stack) <= MAX_CSS_VAR_DEPTH + 1)
  /\ [] ResolvedAsDefined

\* var(--c) with --c defined as var(--c) has been resolved: the call went to
\* depth 11 and returned the text unresolved
C23_Witness ==
  /\ ResolveDone
  /\ cssRun.value = Var("--c", "")
  /\ cssRun.variables = [name \in {"--c"} |-> Var("--c", "")]
  /\ cssRun.deepest = MAX_CSS_VAR_DEPTH + 1
  /\ cssRun.out = Var("--c", "")

====
